---- MODULE Spec2Model ----
(***************************************************************************)
(* Model of the agent file workspace of VPS-Coding-Agent: the path         *)
(* resolver _resolve_safe_path, read_text_file, write_text_file            *)
(* (src/agent.py), the /upload_file handler (src/app.py) and the           *)
(* clean_workspace fixture (src/test_agent_file_ops.py), over a small      *)
(* POSIX file tree.                                                        *)
(*                                                                         *)
(* A file name is the sequence of its dot-separated pieces                 *)
(* ("a.txt" is <<"a","txt">>, ".." is <<"","","">>), a path is the         *)
(* sequence of its names from "/", file data is a sequence of characters.  *)
(***************************************************************************)
EXTENDS Integers, Sequences, FiniteSets, TLC

VARIABLES fs, scandirOrder, PYPDF2_INSTALLED, pc, call, safe_path, fd, ret, wrote

vars == <<fs, scandirOrder, PYPDF2_INSTALLED, pc, call, safe_path, fd, ret, wrote>>

(***************************************************************************)
(* Names, paths and the initial tree                                       *)
(***************************************************************************)
DOT == <<"", "">>
DOTDOT == <<"", "", "">>

n_app == <<"app">>
n_agent_files == <<"agent_files">>
n_etc == <<"etc">>
n_passwd == <<"passwd">>
n_a == <<"a">>
n_d == <<"d">>
n_a_txt == <<"a", "txt">>
n_a_md == <<"a", "md">>
n_a_pdf == <<"a", "pdf">>

\* The process working directory (WORKDIR /app) and the workspace under it.
Cwd == <<n_app>>

AGENT_FILES_WORKSPACE == <<n_agent_files>>

WorkspaceAbs == Cwd \o AGENT_FILES_WORKSPACE

DirNode == [kind |-> "dir", data |-> <<>>]

FileNode(data) == [kind |-> "file", data |-> data]

SecretData == <<"s">>

\* The tree outside the workspace: /, /app, /etc, /etc/passwd.
OutsideTree == (<<>> :> DirNode) @@ (Cwd :> DirNode) @@ (<<n_etc>> :> DirNode)
               @@ (<<n_etc, n_passwd>> :> FileNode(SecretData))

IsPrefix(s, t) == Len(s) <= Len(t) /\ SubSeq(t, 1, Len(s)) = s

Parent(p) == SubSeq(p, 1, Len(p) - 1)

Exists(f, p) == p \in DOMAIN f

IsDir(f, p) == Exists(f, p) /\ f[p].kind = "dir"

IsFile(f, p) == Exists(f, p) /\ f[p].kind = "file"

\* Entries strictly below the workspace root.
Below(f, base) == {p \in DOMAIN f : IsPrefix(base, p) /\ p # base}

(***************************************************************************)
(* Locators: the string handed to the tools, as its '/'-separated segments *)
(***************************************************************************)
Loc(abs, segs) == [abs |-> abs, segs |-> segs]

\* '/' in relative_filepath or '\\' in relative_filepath
HasSeparator(loc) == loc.abs \/ Len(loc.segs) > 1

\* bool(os.path.splitext(name)[1]): there is a dot that is not a leading dot.
HasExtension(name) == Len(name) >= 2 /\ \E i \in 1..(Len(name) - 1) : name[i] # ""

\* Path.suffix of a final component.
Suffix(name) == IF HasExtension(name) /\ name[Len(name)] # "" THEN name[Len(name)] ELSE ""

Lower(s) == CASE s = "PDF" -> "pdf" [] s = "TXT" -> "txt" [] OTHER -> s

\* Variant: the search pattern "<name>*", which the bare name matches too.
MatchesBareName(name, locname) ==
    IF HasExtension(locname)
    THEN name = locname
    ELSE Len(name) >= Len(locname) /\ SubSeq(name, 1, Len(locname)) = locname

\* fnmatch of an entry name against the search pattern: the exact name when
\* the locator has an extension, "<name>.*" otherwise.
Matches(name, locname) ==
    IF HasExtension(locname)
    THEN name = locname
    ELSE Len(name) > Len(locname) /\ SubSeq(name, 1, Len(locname)) = locname

\* Path.resolve(strict=False) on a tree without symbolic links: "." and
\* empty segments vanish, ".." steps to the parent and stays at "/".
RECURSIVE Normalize(_, _)
Normalize(acc, segs) ==
    IF segs = <<>> THEN acc
    ELSE LET s == Head(segs)
         IN  IF s = DOT \/ s = <<"">> THEN Normalize(acc, Tail(segs))
             ELSE IF s = DOTDOT
                  THEN Normalize(IF acc = <<>> THEN acc ELSE Parent(acc), Tail(segs))
                  ELSE Normalize(Append(acc, s), Tail(segs))

\* Variant: the joined path tested as written, never resolved.
CandidateUnresolved(base, loc) == IF loc.abs THEN loc.segs ELSE base \o loc.segs

\* (base_path / relative_filepath).resolve(strict=False)
Candidate(base, loc) == Normalize(IF loc.abs THEN <<>> ELSE base, loc.segs)

(***************************************************************************)
(* Directory enumeration and the resolver                                  *)
(***************************************************************************)
\* Every name an entry of the workspace can carry, in one fixed listing.
\* os.scandir enumerates a directory in an order the file system chooses:
\* scandirOrder says whether that order follows the listing or reverses it.
NameListing == <<n_a, n_a_md, n_a_pdf, n_a_txt, n_d>>

Rank(name) == CHOOSE i \in 1..Len(NameListing) : NameListing[i] = name

ScannedBefore(order, n1, n2) ==
    IF order = "asc" THEN Rank(n1) < Rank(n2) ELSE Rank(n1) > Rank(n2)

\* Position of two distinct paths of equal depth in rglob's pre-order walk:
\* decided where they first differ.
YieldedBefore(order, p, q) ==
    LET i == CHOOSE k \in 1..Len(p) : p[k] # q[k] /\ \A j \in 1..(k - 1) : p[j] = q[j]
    IN  ScannedBefore(order, p[i], q[i])

\* A directory without read permission: it can be entered, not enumerated.
\* Only the workspace root is ever found in that state.
UnreadableDirNode == [kind |-> "dir", data |-> <<"d-wx------">>]

Readable(f, dir) == f[dir] # UnreadableDirNode

\* list(base_path.rglob(search_pattern)), as the set of yielded entries;
\* a directory that cannot be scanned yields nothing.
rglob(f, base, locname) ==
    IF Readable(f, base)
    THEN {p \in Below(f, base) : Matches(p[Len(p)], locname)}
    ELSE {}

\* Variant: the sort reversed, deepest entry first.
DeepestFirst(order, found) ==
    CHOOSE p \in found : \A q \in found \ {p} :
        Len(p) > Len(q) \/ (Len(p) = Len(q) /\ YieldedBefore(order, p, q))

\* found_files.sort(key=depth) is stable, so found_files[0] is the entry of
\* least depth that rglob yielded first.
ShallowestFirst(order, found) ==
    CHOOSE p \in found : \A q \in found \ {p} :
        Len(p) < Len(q) \/ (Len(p) = Len(q) /\ YieldedBefore(order, p, q))

Prefixes(p) == {SubSeq(p, 1, k) : k \in 0..Len(p)}

\* Path.mkdir(parents=True, exist_ok=True): raises when a component is a file.
MkdirRaises(f, dir) == \E q \in Prefixes(dir) : IsFile(f, q)

\* Variant: the parent chain is not created.
MkdirForgotten(f, dir) == f

Mkdir(f, dir) ==
    [q \in DOMAIN f \cup Prefixes(dir) |-> IF q \in DOMAIN f THEN f[q] ELSE DirNode]

None == [ok |-> FALSE, path |-> <<>>]

Some(p) == [ok |-> TRUE, path |-> p]

\* final_resolved_path before the security check.
FinalResolvedPath(f, order, base, loc) ==
    IF HasSeparator(loc)
    THEN Candidate(base, loc)
    ELSE LET found_files == rglob(f, base, loc.segs[1])
         IN  IF found_files # {}
             THEN ShallowestFirst(order, found_files)
             ELSE Candidate(base, loc)

\* Variant: the containment test left out.
SecurityCheckSkipped(base, final) == TRUE

\* base_path == final_resolved_path or base_path in final_resolved_path.parents
SecurityCheck(base, final) == IsPrefix(base, final)

\* Variant: the parent chain created before the security check.
ResolveBodyMkdirFirst(f, order, loc) ==
    IF ~Exists(f, WorkspaceAbs)
    THEN [res |-> None, fs |-> f, exc |-> "FileNotFoundError"]
    ELSE LET base_path == WorkspaceAbs
             final == FinalResolvedPath(f, order, base_path, loc)
             made == IF Exists(f, final) \/ MkdirRaises(f, Parent(final))
                     THEN f ELSE Mkdir(f, Parent(final))
         IN  IF ~Exists(f, final) /\ MkdirRaises(f, Parent(final))
             THEN [res |-> None, fs |-> f, exc |-> "FileExistsError"]
             ELSE IF SecurityCheck(base_path, final)
                  THEN [res |-> Some(final), fs |-> made, exc |-> ""]
                  ELSE [res |-> None, fs |-> made, exc |-> ""]

\* The body of _resolve_safe_path inside its try: the returned path (or
\* None), the tree it leaves, and the exception that left it ("" if none).
ResolveBody(f, order, loc) ==
    IF ~Exists(f, WorkspaceAbs)
    THEN [res |-> None, fs |-> f, exc |-> "FileNotFoundError"]
    ELSE LET base_path == WorkspaceAbs
             final == FinalResolvedPath(f, order, base_path, loc)
         IN  IF SecurityCheck(base_path, final)
             THEN IF Exists(f, final)
                  THEN [res |-> Some(final), fs |-> f, exc |-> ""]
                  ELSE IF MkdirRaises(f, Parent(final))
                       THEN [res |-> None, fs |-> f, exc |-> "FileExistsError"]
                       ELSE [res |-> Some(final), fs |-> Mkdir(f, Parent(final)), exc |-> ""]
             ELSE [res |-> None, fs |-> f, exc |-> ""]

\* Variant: no except clause, the exception leaves the resolver.
ResolveUncaught(f, order, loc) == ResolveBody(f, order, loc)

\* _resolve_safe_path: except Exception returns None.
_resolve_safe_path(f, order, loc) ==
    LET r == ResolveBody(f, order, loc)
    IN  [res |-> r.res, fs |-> r.fs, exc |-> ""]

(***************************************************************************)
(* File data and return values                                             *)
(***************************************************************************)
\* Path.read_text opens in universal-newlines mode: "\r\n" and "\r" are
\* handed to the caller as "\n".
RECURSIVE UniversalNewlines(_)
UniversalNewlines(data) ==
    IF data = <<>> THEN <<>>
    ELSE IF Head(data) = "\r"
         THEN IF Len(data) >= 2 /\ data[2] = "\n"
              THEN <<"\n">> \o UniversalNewlines(Tail(Tail(data)))
              ELSE <<"\n">> \o UniversalNewlines(Tail(data))
         ELSE <<Head(data)>> \o UniversalNewlines(Tail(data))

\* bytes.decode("utf-8") raises on a byte that is not UTF-8.
Utf8Decodable(data) == \A i \in 1..Len(data) : data[i] # "<byte ff>"

\* Writing n bytes through a descriptor positioned at offset 0.
WriteAtStart(old, new) == new \o SubSeq(old, Len(new) + 1, Len(old))

\* What a call hands back: file content, a message with its leading word,
\* an HTTP response, or an exception that left the function.
Text(data) == [type |-> "content", msg |-> "", data |-> data, status |-> 0]

Msg(type, msg) == [type |-> type, msg |-> msg, data |-> <<>>, status |-> 0]

Raised(exc) == [type |-> "raise", msg |-> exc, data |-> <<>>, status |-> 0]

Response(status, body) == [type |-> "http", msg |-> body, data |-> <<>>, status |-> status]

NoReturn == Msg("none", "")

ErrInvalidPathRead == Msg("Error", "Invalid or disallowed file path. Path must be within the agent's designated workspace.")

ErrNotRegularFile == Msg("Error", "File not found or is not a regular file at '<relative_filepath>'.")

ErrNoPdfLibrary == Msg("Error", "PDF processing library (e.g., PyPDF2) not installed. Cannot read PDF files.")

ErrPdfCorrupted == Msg("Error", "Could not read PDF file '<relative_filepath>'. The file may be corrupted or not a valid PDF.")

ErrFileNotFound == Msg("Error", "File not found at '<relative_filepath>'.")

ErrCouldNotRead == Msg("Error", "Could not read file. Details: <e>")

ErrInvalidPathWrite == Msg("Error", "Invalid or disallowed file path for writing. Path must be within the agent's designated workspace.")

ErrCouldNotWrite == Msg("Error", "Could not write to file. Details: <e>")

SuccessWritten == Msg("Success", "Content written to file '<relative_filepath>'.")

ErrPdfUnexpected == Msg("Error", "An unexpected error occurred while processing PDF '<relative_filepath>'. Details: <e>")

ErrPdfPassword == Msg("Error", "PDF file '<relative_filepath>' is password-protected and requires a password to extract text.")

WarnNoText == Msg("Warning", "No text could be extracted from the PDF. The file might be image-based or empty.")

WarnNoTextEncrypted == Msg("Warning", "No text could be extracted from the PDF. The file might be image-based, empty, or encrypted in a way that prevents text extraction without a password.")

\* The bytes of a PDF document, as far as the reader tells them apart: the
\* header, an optional encryption dictionary (with a user password or with
\* the empty one), then one token per page: the text of the page, a page
\* without text, a page whose extraction raises, or a page tree the reader
\* cannot walk.
PDF_HEADER == "%PDF"

ENCRYPT == "/Encrypt"

USER_PASSWORD == "<user password>"

IMAGE_PAGE == "<image>"

BAD_PAGE == "<bad page>"

BAD_PAGE_TREE == "<bad page tree>"

IsPdfData(data) == data # <<>> /\ data[1] = PDF_HEADER

\* reader.is_encrypted
is_encrypted(data) == IsPdfData(data) /\ Len(data) >= 2 /\ data[2] = ENCRYPT

\* The reader decrypts with the empty password on its own; a file with a
\* user password stays locked, since the code never calls decrypt().
Locked(data) == is_encrypted(data) /\ Len(data) >= 3 /\ data[3] = USER_PASSWORD

PdfPages(data) ==
    IF Locked(data) THEN SubSeq(data, 4, Len(data))
    ELSE IF is_encrypted(data) THEN SubSeq(data, 3, Len(data))
    ELSE SubSeq(data, 2, Len(data))

NoException == [class |-> "", message |-> ""]

\* PdfReader(f): data that is no PDF document raises PdfReadError, whose
\* message names no password.
PdfReaderRaises(data) ==
    IF IsPdfData(data) THEN NoException
    ELSE [class |-> "PdfReadError", message |-> "EOF marker not found"]

\* reader.pages: a locked file raises FileNotDecryptedError, a subclass of
\* PdfReadError.
PagesRaises(data) ==
    IF Locked(data) THEN [class |-> "PdfReadError", message |-> "File has not been decrypted"]
    ELSE IF \E i \in 1..Len(PdfPages(data)) : PdfPages(data)[i] = BAD_PAGE_TREE
         THEN [class |-> "RecursionError", message |-> "maximum recursion depth exceeded"]
    ELSE NoException

\* any(keyword in str(e).lower() for keyword in password_keywords)
HasPasswordKeyword(message) == message \in {"File has not been decrypted"}

\* The loop over the pages: a page without text, or whose extraction
\* raises, adds nothing to text_parts.
RECURSIVE text_parts(_)
text_parts(pages) ==
    IF pages = <<>> THEN <<>>
    ELSE IF Head(pages) \in {IMAGE_PAGE, BAD_PAGE} THEN text_parts(Tail(pages))
    ELSE <<Head(pages)>> \o text_parts(Tail(pages))

\* "\n".join(text_parts)
RECURSIVE JoinLines(_)
JoinLines(parts) ==
    IF parts = <<>> THEN <<>>
    ELSE IF Len(parts) = 1 THEN <<parts[1]>>
    ELSE <<parts[1], "\n">> \o JoinLines(Tail(parts))

\* Variant: every PdfReadError reported as a corrupted file.
PdfReadErrorAlwaysCorrupted(e, is_encrypted_flag) == ErrPdfCorrupted

\* except OriginalPdfReadError as e
PdfReadErrorHandler(e, is_encrypted_flag) ==
    IF is_encrypted_flag /\ HasPasswordKeyword(e.message) THEN ErrPdfPassword
    ELSE IF HasPasswordKeyword(e.message) THEN ErrPdfPassword
    ELSE ErrPdfCorrupted

\* The try block of the PDF branch over the bytes of an opened file.
ExtractPdf(data) ==
    IF PdfReaderRaises(data).class = "PdfReadError"
    THEN PdfReadErrorHandler(PdfReaderRaises(data), FALSE)
    ELSE IF PagesRaises(data).class = "PdfReadError"
    THEN PdfReadErrorHandler(PagesRaises(data), is_encrypted(data))
    ELSE IF PagesRaises(data).class # ""
    THEN ErrPdfUnexpected
    ELSE IF text_parts(PdfPages(data)) = <<>>
    THEN IF is_encrypted(data) THEN WarnNoTextEncrypted ELSE WarnNoText
    ELSE Text(JoinLines(text_parts(PdfPages(data))))

\* str.encode("utf-8") raises on a lone surrogate.
Utf8Encodable(content) == \A i \in 1..Len(content) : content[i] # "<lone surrogate>"

\* Variant: exists() in place of is_file().
PathExists(f, path) == Exists(f, path)

\* safe_path.is_file()
PathIsFile(f, path) == IsFile(f, path)

\* What opening the path for reading raises, "" when it opens.
OpenForReadRaises(f, path) ==
    IF ~Exists(f, path) THEN "FileNotFoundError"
    ELSE IF IsDir(f, path) THEN "IsADirectoryError"
    ELSE ""

\* safe_path.read_text(encoding="utf-8"): the text, or the exception.
ReadText(f, path) ==
    IF OpenForReadRaises(f, path) # "" THEN Raised(OpenForReadRaises(f, path))
    ELSE IF ~Utf8Decodable(f[path].data) THEN Raised("UnicodeDecodeError")
    ELSE Text(UniversalNewlines(f[path].data))

\* The PDF branch: its own handlers turn whatever opening or parsing raises
\* into an error string.
ReadPdf(f, path, pdfInstalled) ==
    IF ~pdfInstalled THEN ErrNoPdfLibrary
    ELSE IF OpenForReadRaises(f, path) # "" THEN ErrPdfUnexpected
    ELSE ExtractPdf(f[path].data)

\* Variant: only except FileNotFoundError, no catch-all.
ReadExceptNotFoundOnly(r) ==
    IF r.type = "raise" /\ r.msg = "FileNotFoundError" THEN ErrFileNotFound ELSE r

\* The handlers around the body of read_text_file: except
\* FileNotFoundError, then except Exception.
ReadExcept(r) ==
    IF r.type # "raise" THEN r
    ELSE IF r.msg = "FileNotFoundError" THEN ErrFileNotFound
    ELSE ErrCouldNotRead

\* read_text_file after a successful is_file().
ReadContents(f, path, pdfInstalled) ==
    IF Lower(Suffix(path[Len(path)])) = "pdf"
    THEN ReadExcept(ReadPdf(f, path, pdfInstalled))
    ELSE ReadExcept(ReadText(f, path))

\* read_text_file from its first line to its return, nothing running in
\* between: the result, and the tree the resolver leaves.
ReadTextFile(f, order, pdfInstalled, loc) ==
    LET r == _resolve_safe_path(f, order, loc)
    IN  IF ~r.res.ok
        THEN [ret |-> IF r.exc # "" THEN Raised(r.exc) ELSE ErrInvalidPathRead, fs |-> r.fs]
        ELSE IF ~PathIsFile(r.fs, r.res.path)
        THEN [ret |-> ErrNotRegularFile, fs |-> r.fs]
        ELSE [ret |-> ReadContents(r.fs, r.res.path, pdfInstalled), fs |-> r.fs]

(***************************************************************************)
(* State                                                                   *)
(***************************************************************************)
\* Most entries the workspace holds at a time.
MaxEntries == 2

NoCall == [op |-> "none", loc |-> Loc(FALSE, <<>>), content |-> <<>>]

NoWrite == [valid |-> FALSE, loc |-> Loc(FALSE, <<>>), content |-> <<>>]

Entries(f) == Below(f, WorkspaceAbs)

InitWith(procs, installed) ==
    /\ fs \in {OutsideTree, OutsideTree @@ (WorkspaceAbs :> DirNode)}
    /\ scandirOrder \in {"asc", "desc"}
    /\ PYPDF2_INSTALLED \in installed
    /\ pc = [p \in procs |-> "idle"]
    /\ call = [p \in procs |-> NoCall]
    /\ safe_path = [p \in procs |-> <<>>]
    /\ fd = [p \in procs |-> FALSE]
    /\ ret = [p \in procs |-> NoReturn]
    /\ wrote = NoWrite

\* The record of the last successful write stands while the tree is as
\* that write left it.
Unchanged(w, f, g) == IF f = g THEN w ELSE NoWrite

(***************************************************************************)
(* read_text_file                                                          *)
(***************************************************************************)
\* The call of the resolver stands before the try block: what the resolver
\* lets out leaves read_text_file as well.
read_text_file(p, loc) ==
    /\ pc[p] = "idle"
    /\ LET r == _resolve_safe_path(fs, scandirOrder, loc)
       IN  /\ Cardinality(Entries(r.fs)) <= MaxEntries
           /\ fs' = r.fs
           /\ wrote' = Unchanged(wrote, fs, r.fs)
           /\ call' = [call EXCEPT ![p] = [op |-> "read", loc |-> loc, content |-> <<>>]]
           /\ IF r.res.ok
              THEN /\ safe_path' = [safe_path EXCEPT ![p] = r.res.path]
                   /\ pc' = [pc EXCEPT ![p] = "is_file"]
                   /\ ret' = [ret EXCEPT ![p] = NoReturn]
              ELSE /\ safe_path' = [safe_path EXCEPT ![p] = <<>>]
                   /\ pc' = pc
                   /\ ret' = [ret EXCEPT ![p] = IF r.exc # "" THEN Raised(r.exc)
                                                ELSE ErrInvalidPathRead]
    /\ UNCHANGED <<scandirOrder, PYPDF2_INSTALLED, fd>>

read_is_file(p) ==
    /\ pc[p] = "is_file"
    /\ IF PathIsFile(fs, safe_path[p])
       THEN /\ pc' = [pc EXCEPT ![p] = "read"]
            /\ ret' = ret
       ELSE /\ pc' = [pc EXCEPT ![p] = "idle"]
            /\ ret' = [ret EXCEPT ![p] = ErrNotRegularFile]
    /\ UNCHANGED <<fs, scandirOrder, PYPDF2_INSTALLED, call, safe_path, fd, wrote>>

read_contents(p) ==
    /\ pc[p] = "read"
    /\ pc' = [pc EXCEPT ![p] = "idle"]
    /\ ret' = [ret EXCEPT ![p] = ReadContents(fs, safe_path[p], PYPDF2_INSTALLED)]
    /\ UNCHANGED <<fs, scandirOrder, PYPDF2_INSTALLED, call, safe_path, fd, wrote>>

(***************************************************************************)
(* write_text_file                                                         *)
(***************************************************************************)
write_text_file(p, loc, content) ==
    /\ pc[p] = "idle"
    /\ LET r == _resolve_safe_path(fs, scandirOrder, loc)
       IN  /\ Cardinality(Entries(r.fs)) <= MaxEntries
           /\ fs' = r.fs
           /\ wrote' = Unchanged(wrote, fs, r.fs)
           /\ call' = [call EXCEPT ![p] = [op |-> "write", loc |-> loc, content |-> content]]
           /\ IF r.res.ok
              THEN /\ safe_path' = [safe_path EXCEPT ![p] = r.res.path]
                   /\ pc' = [pc EXCEPT ![p] = "open"]
                   /\ ret' = [ret EXCEPT ![p] = NoReturn]
              ELSE /\ safe_path' = [safe_path EXCEPT ![p] = <<>>]
                   /\ pc' = pc
                   /\ ret' = [ret EXCEPT ![p] = IF r.exc # "" THEN Raised(r.exc)
                                                ELSE ErrInvalidPathWrite]
    /\ UNCHANGED <<scandirOrder, PYPDF2_INSTALLED, fd>>

\* What open(path, "w") raises, "" when it opens.
OpenForWriteRaises(f, path) ==
    IF IsDir(f, path) THEN "IsADirectoryError"
    ELSE IF ~Exists(f, Parent(path)) THEN "FileNotFoundError"
    ELSE IF ~IsDir(f, Parent(path)) THEN "NotADirectoryError"
    ELSE ""

\* open(path, "w") creates the file or truncates it.
OpenTruncate(f, path) ==
    [q \in DOMAIN f \cup {path} |-> IF q = path THEN FileNode(<<>>) ELSE f[q]]

\* The handler around safe_path.write_text: except Exception.
WriteExcept(exc) == ErrCouldNotWrite

write_open(p) ==
    /\ pc[p] = "open"
    /\ IF OpenForWriteRaises(fs, safe_path[p]) # ""
       THEN /\ fs' = fs
            /\ fd' = fd
            /\ pc' = [pc EXCEPT ![p] = "idle"]
            /\ ret' = [ret EXCEPT ![p] = WriteExcept(OpenForWriteRaises(fs, safe_path[p]))]
       ELSE /\ fs' = OpenTruncate(fs, safe_path[p])
            /\ Cardinality(Entries(fs')) <= MaxEntries
            /\ fd' = [fd EXCEPT ![p] = TRUE]
            /\ pc' = [pc EXCEPT ![p] = "write"]
            /\ ret' = ret
    /\ wrote' = Unchanged(wrote, fs, fs')
    /\ UNCHANGED <<scandirOrder, PYPDF2_INSTALLED, call, safe_path>>

\* f.write(content) and the close: the encoded text goes to the open file,
\* which is the entry at the path unless that was unlinked meanwhile.  Text
\* that cannot be encoded raises and leaves the file as open() left it.
write_data(p) ==
    /\ pc[p] = "write"
    /\ pc' = [pc EXCEPT ![p] = "idle"]
    /\ fd' = [fd EXCEPT ![p] = FALSE]
    /\ IF ~Utf8Encodable(call[p].content)
       THEN /\ fs' = fs
            /\ ret' = [ret EXCEPT ![p] = WriteExcept("UnicodeEncodeError")]
            /\ wrote' = wrote
       ELSE /\ fs' = IF fd[p]
                     THEN [fs EXCEPT ![safe_path[p]] =
                              FileNode(WriteAtStart(fs[safe_path[p]].data, call[p].content))]
                     ELSE fs
            /\ ret' = [ret EXCEPT ![p] = SuccessWritten]
            /\ wrote' = IF fd[p]
                        THEN [valid |-> TRUE, loc |-> call[p].loc, content |-> call[p].content]
                        ELSE NoWrite
    /\ UNCHANGED <<scandirOrder, PYPDF2_INSTALLED, call, safe_path>>

(***************************************************************************)
(* clean_workspace (test fixture)                                          *)
(***************************************************************************)
\* The fixture empties the workspace (or creates it); files that are
\* open at that moment are unlinked under their writers.  A test starts
\* from it, so what the finished calls before it returned is dropped.
clean_workspace ==
    /\ fs' = IF Exists(fs, WorkspaceAbs)
             THEN [q \in DOMAIN fs \ Entries(fs) |-> fs[q]]
             ELSE Mkdir(fs, WorkspaceAbs)
    /\ fs' # fs
    /\ fd' = [p \in DOMAIN fd |-> FALSE]
    /\ wrote' = NoWrite
    /\ call' = [p \in DOMAIN pc |-> IF pc[p] = "idle" THEN NoCall ELSE call[p]]
    /\ ret' = [p \in DOMAIN pc |-> IF pc[p] = "idle" THEN NoReturn ELSE ret[p]]
    /\ UNCHANGED <<scandirOrder, PYPDF2_INSTALLED, pc, safe_path>>

\* The fixture as the test suite runs it: before and after a test, never
\* inside a call.
Quiescent == \A p \in DOMAIN pc : pc[p] = "idle"

clean_between_tests == Quiescent /\ clean_workspace

(***************************************************************************)
(* POST /upload_file                                                       *)
(***************************************************************************)
ALLOWED_EXTENSIONS == {"txt", "pdf"}

MAX_FILE_SIZE == 1073741824

\* os.path.splitext(file.filename)[1] without its dot.
Ext(name) == IF HasExtension(name) THEN name[Len(name)] ELSE ""

\* werkzeug's secure_filename on a name of ASCII letters and dots: leading
\* and trailing dots are stripped.
RECURSIVE StripDots(_)
StripDots(name) ==
    IF name = <<>> THEN name
    ELSE IF Head(name) = "" THEN StripDots(Tail(name))
    ELSE IF name[Len(name)] = "" THEN StripDots(SubSeq(name, 1, Len(name) - 1))
    ELSE name

secure_filename(name) == StripDots(name)

\* file.tell() after seeking to the end.
FileSize(file) == IF file.huge THEN MAX_FILE_SIZE + 1 ELSE Len(file.data)

\* Path(AGENT_FILES_WORKSPACE).mkdir(...) and file.save(save_path) raise
\* when the save path is a directory.
SaveRaises(f, save_path) == MkdirRaises(f, WorkspaceAbs) \/ IsDir(f, save_path)

\* Variant: a file that is there already is kept as it is.
SaveKeepsExisting(f, save_path, data) ==
    LET g == Mkdir(f, WorkspaceAbs)
    IN  IF Exists(g, save_path) THEN g
        ELSE [q \in DOMAIN g \cup {save_path} |-> IF q = save_path THEN FileNode(data) ELSE g[q]]

Save(f, save_path, data) ==
    LET g == Mkdir(f, WorkspaceAbs)
    IN  [q \in DOMAIN g \cup {save_path} |-> IF q = save_path THEN FileNode(data) ELSE g[q]]

\* The 200 response: its message names the sanitised filename.
UploadedSuccessfully(filename) ==
    [type |-> "http", msg |-> "File <filename> uploaded successfully.", data |-> filename, status |-> 200]

\* Variant: the route without @login_required.
UploadWithoutLogin(f, authenticated, hasPart, file) ==
    IF ~hasPart
    THEN [resp |-> Response(400, "No file part in the request."), fs |-> f]
    ELSE IF file.filename = <<"">>
    THEN [resp |-> Response(400, "No selected file."), fs |-> f]
    ELSE IF Lower(Ext(file.filename)) \notin ALLOWED_EXTENSIONS
    THEN [resp |-> Response(400, "File type not allowed. Only .txt and .pdf files are accepted."), fs |-> f]
    ELSE IF FileSize(file) > MAX_FILE_SIZE
    THEN [resp |-> Response(400, "File exceeds maximum size of 1GB."), fs |-> f]
    ELSE LET save_path == WorkspaceAbs \o <<secure_filename(file.filename)>>
         IN  IF SaveRaises(f, save_path)
             THEN [resp |-> Response(500, "An error occurred while saving the file."), fs |-> f]
             ELSE [resp |-> UploadedSuccessfully(secure_filename(file.filename)),
                   fs |-> Save(f, save_path, file.data)]

\* Variant: the size is looked at after the file was saved.
UploadSizeCheckedLast(f, authenticated, hasPart, file) ==
    IF ~authenticated
    THEN [resp |-> Response(302, "/login"), fs |-> f]
    ELSE IF ~hasPart
    THEN [resp |-> Response(400, "No file part in the request."), fs |-> f]
    ELSE IF file.filename = <<"">>
    THEN [resp |-> Response(400, "No selected file."), fs |-> f]
    ELSE IF Lower(Ext(file.filename)) \notin ALLOWED_EXTENSIONS
    THEN [resp |-> Response(400, "File type not allowed. Only .txt and .pdf files are accepted."), fs |-> f]
    ELSE LET save_path == WorkspaceAbs \o <<secure_filename(file.filename)>>
         IN  IF SaveRaises(f, save_path)
             THEN [resp |-> Response(500, "An error occurred while saving the file."), fs |-> f]
             ELSE IF FileSize(file) > MAX_FILE_SIZE
             THEN [resp |-> Response(400, "File exceeds maximum size of 1GB."),
                   fs |-> Save(f, save_path, file.data)]
             ELSE [resp |-> UploadedSuccessfully(secure_filename(file.filename)),
                   fs |-> Save(f, save_path, file.data)]

\* The request a worker serves, and the response it answers with.
UploadResult(f, authenticated, hasPart, file) ==
    IF ~authenticated
    THEN [resp |-> Response(302, "/login"), fs |-> f]
    ELSE IF ~hasPart
    THEN [resp |-> Response(400, "No file part in the request."), fs |-> f]
    ELSE IF file.filename = <<"">>
    THEN [resp |-> Response(400, "No selected file."), fs |-> f]
    ELSE IF Lower(Ext(file.filename)) \notin ALLOWED_EXTENSIONS
    THEN [resp |-> Response(400, "File type not allowed. Only .txt and .pdf files are accepted."), fs |-> f]
    ELSE IF FileSize(file) > MAX_FILE_SIZE
    THEN [resp |-> Response(400, "File exceeds maximum size of 1GB."), fs |-> f]
    ELSE LET save_path == WorkspaceAbs \o <<secure_filename(file.filename)>>
         IN  IF SaveRaises(f, save_path)
             THEN [resp |-> Response(500, "An error occurred while saving the file."), fs |-> f]
             ELSE [resp |-> UploadedSuccessfully(secure_filename(file.filename)),
                   fs |-> Save(f, save_path, file.data)]

upload_file(p, authenticated, hasPart, file) ==
    /\ pc[p] = "idle"
    /\ LET r == UploadResult(fs, authenticated, hasPart, file)
       IN  /\ Cardinality(Entries(r.fs)) <= MaxEntries
           /\ fs' = r.fs
           /\ ret' = [ret EXCEPT ![p] = r.resp]
           /\ call' = [call EXCEPT ![p] = [op |-> "upload", loc |-> Loc(FALSE, <<file.filename>>),
                                           content |-> file.data]]
    /\ wrote' = Unchanged(wrote, fs, fs')
    /\ UNCHANGED <<scandirOrder, PYPDF2_INSTALLED, pc, safe_path, fd>>

(***************************************************************************)
(* Inputs                                                                  *)
(***************************************************************************)
Locators ==
    { Loc(FALSE, <<n_a_txt>>),                          \* a.txt
      Loc(FALSE, <<n_a_pdf>>),                          \* a.pdf
      Loc(FALSE, <<n_a>>),                              \* a
      Loc(FALSE, <<DOT>>),                              \* .
      Loc(FALSE, <<DOTDOT>>),                           \* ..
      Loc(FALSE, <<n_d, n_a_txt>>),                     \* d/a.txt
      Loc(FALSE, <<n_a_txt, n_a_txt>>),                 \* a.txt/a.txt
      Loc(FALSE, <<n_d, DOTDOT, n_a_txt>>),             \* d/../a.txt
      Loc(FALSE, <<DOTDOT, DOTDOT, n_etc, n_passwd>>),  \* ../../etc/passwd
      Loc(FALSE, <<DOTDOT, n_d, n_a_txt>>),             \* ../d/a.txt
      Loc(TRUE, <<n_etc, n_passwd>>) }                  \* /etc/passwd

Contents == { <<"x">>, <<"y", "\r", "\n">>, <<"<lone surrogate>">> }

UploadedFiles ==
    { [filename |-> n_a_txt, data |-> <<"<byte ff>">>, huge |-> FALSE],
      [filename |-> n_a_pdf, data |-> <<"x">>, huge |-> FALSE],
      [filename |-> n_a_txt, data |-> <<"x">>, huge |-> TRUE],
      [filename |-> n_a_md, data |-> <<"x">>, huge |-> FALSE],
      [filename |-> <<"">>, data |-> <<>>, huge |-> FALSE] }

(***************************************************************************)
(* The tools called one after the other, as the test suite calls them      *)
(***************************************************************************)
Worker == {"w1"}

Init == InitWith(Worker, BOOLEAN)

Next ==
    \/ \E p \in Worker, loc \in Locators : read_text_file(p, loc)
    \/ \E p \in Worker : read_is_file(p)
    \/ \E p \in Worker : read_contents(p)
    \/ \E p \in Worker, loc \in Locators, content \in Contents : write_text_file(p, loc, content)
    \/ \E p \in Worker : write_open(p)
    \/ \E p \in Worker : write_data(p)
    \/ clean_between_tests

Spec == Init /\ [][Next]_vars

(***************************************************************************)
(* Two workers on the one workspace, their file-system calls interleaved   *)
(* with each other, with uploads and with the fixture                      *)
(***************************************************************************)
Workers == {"w1", "w2"}

ContentsC == { <<"x">>, <<"y", "\r", "\n">> }

LocatorsC ==
    { Loc(FALSE, <<n_a_txt>>),                          \* a.txt
      Loc(FALSE, <<DOT>>),                              \* .
      Loc(FALSE, <<n_a_txt, n_a_txt>>),                 \* a.txt/a.txt
      Loc(FALSE, <<DOTDOT, DOTDOT, n_etc, n_passwd>>) } \* ../../etc/passwd

UploadedFilesC == { [filename |-> n_a_txt, data |-> <<"<byte ff>">>, huge |-> FALSE] }

InitC == InitWith(Workers, {TRUE})

NextC ==
    \/ \E p \in Workers, loc \in LocatorsC : read_text_file(p, loc)
    \/ \E p \in Workers : read_is_file(p)
    \/ \E p \in Workers : read_contents(p)
    \/ \E p \in Workers, loc \in LocatorsC, content \in ContentsC : write_text_file(p, loc, content)
    \/ \E p \in Workers : write_open(p)
    \/ \E p \in Workers : write_data(p)
    \/ \E p \in Workers, file \in UploadedFilesC : upload_file(p, TRUE, TRUE, file)
    \/ clean_workspace

SpecC == InitC /\ [][NextC]_vars

(***************************************************************************)
(* list_files_in_workspace                                                 *)
(***************************************************************************)
ListResult(names) == [type |-> "list", msg |-> "", data |-> names, status |-> 0]

RECURSIVE Reverse(_)
Reverse(s) == IF s = <<>> THEN <<>> ELSE Reverse(Tail(s)) \o <<Head(s)>>

\* The names os.scandir hands out for a directory, in the order it does.
Scandir(f, dir, order) ==
    LET IsEntry(n) == Exists(f, dir \o <<n>>)
        asc == SelectSeq(NameListing, IsEntry)
    IN  IF order = "asc" THEN asc ELSE Reverse(asc)

\* Variant: the walk descends, every entry below the directory is named.
IterdirRecursive(f, dir, order) ==
    LET IsBelow(n) == \E q \in Below(f, dir) : q[Len(q)] = n
        asc == SelectSeq(NameListing, IsBelow)
    IN  IF order = "asc" THEN asc ELSE Reverse(asc)

\* [entry.name for entry in AGENT_FILES_WORKSPACE.iterdir()]
Iterdir(f, dir, order) == Scandir(f, dir, order)

\* The whole function: [] when the workspace does not exist, is not a
\* directory, or iterdir raises OSError; the names otherwise.
ListFiles(f, order) ==
    IF ~Exists(f, WorkspaceAbs) THEN <<>>
    ELSE IF ~IsDir(f, WorkspaceAbs) THEN <<>>
    ELSE IF ~Readable(f, WorkspaceAbs) THEN <<>>
    ELSE Iterdir(f, WorkspaceAbs, order)

list_files_in_workspace(p) ==
    /\ pc[p] = "idle"
    /\ call' = [call EXCEPT ![p] = [op |-> "list", loc |-> Loc(FALSE, <<>>), content |-> <<>>]]
    /\ ret' = [ret EXCEPT ![p] = ListResult(ListFiles(fs, scandirOrder))]
    /\ safe_path' = [safe_path EXCEPT ![p] = <<>>]
    /\ UNCHANGED <<fs, scandirOrder, PYPDF2_INSTALLED, pc, fd, wrote>>

(***************************************************************************)
(* Listing a workspace that may be missing, a file, or unreadable          *)
(***************************************************************************)
LocatorsL ==
    { Loc(FALSE, <<n_a_txt>>),                          \* a.txt
      Loc(FALSE, <<n_a_pdf>>),                          \* a.pdf
      Loc(FALSE, <<n_d, n_a_txt>>),                     \* d/a.txt
      Loc(FALSE, <<n_a_txt, n_a_txt>>) }                \* a.txt/a.txt

ContentsL == { <<"x">> }

InitL ==
    /\ fs \in { OutsideTree,
                OutsideTree @@ (WorkspaceAbs :> DirNode),
                OutsideTree @@ (WorkspaceAbs :> FileNode(<<"x">>)),
                OutsideTree @@ (WorkspaceAbs :> UnreadableDirNode) }
    /\ scandirOrder \in {"asc", "desc"}
    /\ PYPDF2_INSTALLED = TRUE
    /\ pc = [p \in Worker |-> "idle"]
    /\ call = [p \in Worker |-> NoCall]
    /\ safe_path = [p \in Worker |-> <<>>]
    /\ fd = [p \in Worker |-> FALSE]
    /\ ret = [p \in Worker |-> NoReturn]
    /\ wrote = NoWrite

NextL ==
    \/ \E p \in Worker : list_files_in_workspace(p)
    \/ \E p \in Worker, loc \in LocatorsL, content \in ContentsL : write_text_file(p, loc, content)
    \/ \E p \in Worker : write_open(p)
    \/ \E p \in Worker : write_data(p)

SpecL == InitL /\ [][NextL]_vars

(***************************************************************************)
(* Two writers and nothing else: calls of write_text_file racing on the    *)
(* same files                                                              *)
(***************************************************************************)
LocatorsW ==
    { Loc(FALSE, <<n_a_txt>>),                          \* a.txt
      Loc(FALSE, <<n_d, n_a_txt>>) }                    \* d/a.txt

ContentsW == { <<"x">>, <<"y", "\r", "\n">> }

InitW == InitWith(Workers, {TRUE})

NextW ==
    \/ \E p \in Workers, loc \in LocatorsW, content \in ContentsW : write_text_file(p, loc, content)
    \/ \E p \in Workers : write_open(p)
    \/ \E p \in Workers : write_data(p)

SpecW == InitW /\ [][NextW]_vars

(***************************************************************************)
(* PDF documents uploaded and read back, one call after the other          *)
(***************************************************************************)
PdfWithText == <<PDF_HEADER, "p1", IMAGE_PAGE, BAD_PAGE, "p2">>

PdfImageOnly == <<PDF_HEADER, IMAGE_PAGE>>

PdfEncryptedImageOnly == <<PDF_HEADER, ENCRYPT, IMAGE_PAGE>>

PdfLocked == <<PDF_HEADER, ENCRYPT, USER_PASSWORD, "p1">>

PdfBadPageTree == <<PDF_HEADER, BAD_PAGE_TREE>>

UploadedFilesP ==
    { [filename |-> n_a_pdf, data |-> <<"x">>, huge |-> FALSE],
      [filename |-> n_a_pdf, data |-> PdfWithText, huge |-> FALSE],
      [filename |-> n_a_pdf, data |-> PdfImageOnly, huge |-> FALSE],
      [filename |-> n_a_pdf, data |-> PdfEncryptedImageOnly, huge |-> FALSE],
      [filename |-> n_a_pdf, data |-> PdfLocked, huge |-> FALSE],
      [filename |-> n_a_pdf, data |-> PdfBadPageTree, huge |-> FALSE] }

LocatorsP == { Loc(FALSE, <<n_a_pdf>>), Loc(FALSE, <<n_a>>) }

InitP == InitWith(Worker, BOOLEAN)

NextP ==
    \/ \E p \in Worker, file \in UploadedFilesP : upload_file(p, TRUE, TRUE, file)
    \/ \E p \in Worker, loc \in LocatorsP : read_text_file(p, loc)
    \/ \E p \in Worker : read_is_file(p)
    \/ \E p \in Worker : read_contents(p)

SpecP == InitP /\ [][NextP]_vars

(***************************************************************************)
(* The web application serving two logged-in users, each in a session of   *)
(* their own, over the one AGENT_FILES_WORKSPACE                           *)
(***************************************************************************)
\* current_user of the session a worker serves.
current_user(p) == IF p = "w1" THEN "alice" ELSE "bob"

\* @login_required: a request without a login is redirected.
login_required(authenticated, resp) ==
    IF authenticated THEN resp ELSE Response(302, "/login")

\* GET /list_files
list_agent_files(p, authenticated) ==
    /\ pc[p] = "idle"
    /\ call' = [call EXCEPT ![p] = [op |-> "list_files", loc |-> Loc(FALSE, <<>>), content |-> <<>>]]
    /\ ret' = [ret EXCEPT ![p] =
                  login_required(authenticated,
                      Response(500, "Could not list files due to an internal server error."))]
    /\ UNCHANGED <<fs, scandirOrder, PYPDF2_INSTALLED, pc, safe_path, fd, wrote>>

\* GET /view_file/<path:filename>
view_agent_file(p, authenticated, filename) ==
    /\ pc[p] = "idle"
    /\ call' = [call EXCEPT ![p] = [op |-> "view_file", loc |-> filename, content |-> <<>>]]
    /\ ret' = [ret EXCEPT ![p] =
                  login_required(authenticated,
                      Response(500, "An unexpected error occurred while trying to read the file <filename>."))]
    /\ UNCHANGED <<fs, scandirOrder, PYPDF2_INSTALLED, pc, safe_path, fd, wrote>>

UploadedFilesU ==
    { [filename |-> n_a_txt, data |-> <<"z">>, huge |-> FALSE],
      [filename |-> n_a_txt, data |-> <<"x">>, huge |-> TRUE],
      [filename |-> n_a_md, data |-> <<"x">>, huge |-> FALSE],
      [filename |-> <<"">>, data |-> <<>>, huge |-> FALSE],
      [filename |-> n_a_pdf, data |-> <<"x">>, huge |-> FALSE] }

LocatorsU == { Loc(FALSE, <<n_a_txt>>), Loc(FALSE, <<n_a_pdf>>) }

ContentsU == { <<"y">> }

InitU == InitWith(Workers, {TRUE})

\* alice uploads and writes; bob reads, lists and calls the two GET routes.
NextU ==
    \/ \E authenticated \in BOOLEAN, hasPart \in BOOLEAN, file \in UploadedFilesU :
           upload_file("w1", authenticated, hasPart, file)
    \/ \E loc \in LocatorsU, content \in ContentsU : write_text_file("w1", loc, content)
    \/ write_open("w1")
    \/ write_data("w1")
    \/ \E loc \in LocatorsU : read_text_file("w2", loc)
    \/ read_is_file("w2")
    \/ read_contents("w2")
    \/ list_files_in_workspace("w2")
    \/ \E authenticated \in BOOLEAN : list_agent_files("w2", authenticated)
    \/ \E authenticated \in BOOLEAN, loc \in LocatorsU : view_agent_file("w2", authenticated, loc)

SpecU == InitU /\ [][NextU]_vars

(***************************************************************************)
(* get_gemini_response: the chat with the model and its tool calls         *)
(***************************************************************************)
\* A content argument that is a number, which has no len().
NumberContent == <<"<number>">>

\* write_text_file from its first line to its return, nothing running in
\* between. The first line logs len(content), outside every try.
WriteTextFile(f, order, loc, content) ==
    LET r == _resolve_safe_path(f, order, loc)
    IN  IF content = NumberContent
        THEN [ret |-> Raised("TypeError"), fs |-> f]
        ELSE IF ~r.res.ok
        THEN [ret |-> IF r.exc # "" THEN Raised(r.exc) ELSE ErrInvalidPathWrite, fs |-> r.fs]
        ELSE IF OpenForWriteRaises(r.fs, r.res.path) # ""
        THEN [ret |-> WriteExcept(OpenForWriteRaises(r.fs, r.res.path)), fs |-> r.fs]
        ELSE IF ~Utf8Encodable(content)
        THEN [ret |-> WriteExcept("UnicodeEncodeError"), fs |-> OpenTruncate(r.fs, r.res.path)]
        ELSE [ret |-> SuccessWritten,
              fs |-> [OpenTruncate(r.fs, r.res.path) EXCEPT ![r.res.path] = FileNode(content)]]

AVAILABLE_TOOLS_PYTHON_FUNCTIONS == {"read_text_file", "write_text_file"}

NoResponse == Msg("None", "")

SorryUnexpected == Msg("Sorry", "an unexpected error occurred while processing your request with the AI.")

SorryBlocked == Msg("Sorry", "your request was blocked by the content safety filter. Reason: <block_reason>")

SorryFinished == Msg("Sorry", "the AI model finished unexpectedly. Reason: <finish_reason>")

SorryNoText == Msg("Sorry", "I couldn't generate a text response for that.")

ErrToolArguments == Msg("Error", "Tool '<tool_name>' called with incorrect arguments. Details: <te>")

ErrToolException == Msg("Error", "Exception during tool '<tool_name>' execution. Details: <e>")

UnknownTool == Msg("error", "Unknown tool: <tool_name>. Available tools are: ['read_text_file', 'write_text_file']")

\* The function response sent back to the model.
FunctionResponse(name, key, value) ==
    [type |-> "function_response", msg |-> name, data |-> <<key, value>>, status |-> 0]

\* A function call of the model without its required arguments.
NoArguments == Loc(FALSE, <<>>)

\* Variant: no try around the tool, what it raises is its result.
ToolResultUncaught(f, order, pdfInstalled, fc) ==
    IF fc.loc = NoArguments
    THEN [ret |-> Raised("TypeError"), fs |-> f]
    ELSE IF fc.op = "read_text_file"
    THEN ReadTextFile(f, order, pdfInstalled, fc.loc)
    ELSE WriteTextFile(f, order, fc.loc, fc.content)

\* tool_function(**tool_args) inside its try: the result handed back, and
\* the tree the tool leaves. except TypeError answers for a call that does
\* not fit the signature and for a TypeError of the tool itself, except
\* Exception for the rest.
ToolResult(f, order, pdfInstalled, fc) ==
    IF fc.loc = NoArguments
    THEN [ret |-> ErrToolArguments, fs |-> f]
    ELSE LET r == IF fc.op = "read_text_file"
                  THEN ReadTextFile(f, order, pdfInstalled, fc.loc)
                  ELSE WriteTextFile(f, order, fc.loc, fc.content)
         IN  IF r.ret.type = "raise"
             THEN [ret |-> IF r.ret.msg = "TypeError"
                           THEN ErrToolArguments ELSE ErrToolException,
                   fs |-> r.fs]
             ELSE r

\* The parts of what chat.send_message hands back: function calls, or what
\* makes a last response, one with text, without text, blocked, or cut
\* short.
FunctionCalls ==
    { [op |-> "read_text_file", loc |-> Loc(FALSE, <<n_a_txt>>), content |-> <<>>],
      [op |-> "read_text_file", loc |-> Loc(FALSE, <<DOTDOT, n_d, n_a_txt>>), content |-> <<>>],
      [op |-> "read_text_file", loc |-> NoArguments, content |-> <<>>],
      [op |-> "write_text_file", loc |-> Loc(FALSE, <<n_a_txt>>), content |-> <<"x">>],
      [op |-> "write_text_file", loc |-> Loc(FALSE, <<n_a_txt>>), content |-> NumberContent],
      [op |-> "list_files_in_workspace", loc |-> NoArguments, content |-> <<>>],
      [op |-> "delete_file", loc |-> Loc(FALSE, <<n_a_txt>>), content |-> <<>>] }

LastResponses ==
    { [op |-> kind, loc |-> NoArguments, content |-> <<>>] :
        kind \in {"<text>", "<blocked>", "<finish_reason>", "<no text>"} }

TextPart == [op |-> "<text>", loc |-> NoArguments, content |-> <<>>]

ReadCall == [op |-> "read_text_file", loc |-> Loc(FALSE, <<n_a_txt>>), content |-> <<>>]

WriteCall == [op |-> "write_text_file", loc |-> Loc(FALSE, <<n_a_txt>>), content |-> <<"x">>]

\* Responses of one part, and two of several: text before two function
\* calls, and a function call before text.
Responses ==
    { <<part>> : part \in FunctionCalls \cup LastResponses }
        \cup { <<TextPart, ReadCall, WriteCall>>, <<WriteCall, TextPart>> }

\* Variant: the last part with a function call.
RECURSIVE LastFunctionCallPart(_)
LastFunctionCallPart(parts) ==
    IF parts = <<>> THEN <<>>
    ELSE IF LastFunctionCallPart(Tail(parts)) # <<>> THEN LastFunctionCallPart(Tail(parts))
    ELSE IF Head(parts) \in LastResponses THEN <<>>
    ELSE <<Head(parts)>>

\* The for loop over the parts with its break: the first part with a
\* function call, <<>> when there is none.
RECURSIVE function_call_part(_)
function_call_part(parts) ==
    IF parts = <<>> THEN <<>>
    ELSE IF Head(parts) \in LastResponses THEN function_call_part(Tail(parts))
    ELSE <<Head(parts)>>

FinalText(response) ==
    IF response.op = "<text>" THEN Text(<<"reply">>)
    ELSE IF response.op = "<blocked>" THEN SorryBlocked
    ELSE IF response.op = "<finish_reason>" THEN SorryFinished
    ELSE SorryNoText

get_gemini_response(p, model) ==
    /\ pc[p] = "idle"
    /\ IF ~model
       THEN /\ call' = [call EXCEPT ![p] = [op |-> "<no model>", loc |-> NoArguments, content |-> <<>>]]
            /\ ret' = [ret EXCEPT ![p] = NoResponse]
            /\ pc' = pc
       ELSE /\ call' = [call EXCEPT ![p] = [op |-> "<user message>", loc |-> NoArguments, content |-> <<>>]]
            /\ ret' = [ret EXCEPT ![p] = NoReturn]
            /\ pc' = [pc EXCEPT ![p] = "send_message"]
    /\ UNCHANGED <<fs, scandirOrder, PYPDF2_INSTALLED, safe_path, fd, wrote>>

\* chat.send_message returns a response, or raises into the outer handler.
\* Of a response the loop looks at its first function call, or at the
\* response as a last one when it has none.
send_message(p, raises, response) ==
    /\ pc[p] = "send_message"
    /\ IF raises
       THEN /\ call' = [call EXCEPT ![p] = [op |-> "<exception>", loc |-> NoArguments, content |-> <<>>]]
            /\ ret' = [ret EXCEPT ![p] = SorryUnexpected]
            /\ pc' = [pc EXCEPT ![p] = "idle"]
       ELSE /\ call' = [call EXCEPT ![p] = IF function_call_part(response) # <<>>
                                            THEN function_call_part(response)[1]
                                            ELSE response[1]]
            /\ ret' = ret
            /\ pc' = [pc EXCEPT ![p] = "response"]
    /\ UNCHANGED <<fs, scandirOrder, PYPDF2_INSTALLED, safe_path, fd, wrote>>

\* Variant: a response without a function call is answered with another
\* send, as a function call is.
ToolLoopKeepsAsking(p) ==
    /\ pc[p] = "response"
    /\ pc' = [pc EXCEPT ![p] = "send_message"]
    /\ UNCHANGED <<fs, scandirOrder, PYPDF2_INSTALLED, call, safe_path, fd, ret, wrote>>

\* One turn of the while loop over a response.
tool_loop(p) ==
    /\ pc[p] = "response"
    /\ IF call[p] \in LastResponses
       THEN /\ ret' = [ret EXCEPT ![p] = FinalText(call[p])]
            /\ pc' = [pc EXCEPT ![p] = "idle"]
            /\ fs' = fs
       ELSE IF call[p].op \in AVAILABLE_TOOLS_PYTHON_FUNCTIONS
       THEN \E r \in {ToolResult(fs, scandirOrder, PYPDF2_INSTALLED, call[p])} :
                /\ Cardinality(Entries(r.fs)) <= MaxEntries
                /\ fs' = r.fs
                /\ ret' = [ret EXCEPT ![p] = FunctionResponse(call[p].op, "content", r.ret)]
                /\ pc' = [pc EXCEPT ![p] = "send_message"]
       ELSE /\ ret' = [ret EXCEPT ![p] = FunctionResponse(call[p].op, "error", UnknownTool)]
            /\ pc' = [pc EXCEPT ![p] = "send_message"]
            /\ fs' = fs
    /\ wrote' = Unchanged(wrote, fs, fs')
    /\ UNCHANGED <<scandirOrder, PYPDF2_INSTALLED, call, safe_path, fd>>

\* POST /ask, given what get_gemini_response returned to it: the handler
\* awaits the returned value, which is no awaitable, and its own handler
\* answers for the TypeError.
ask(agent_runner, user_message, ai_response) ==
    IF ~agent_runner
    THEN Response(400, "Agent not initialized for this session. Please visit the chat page first.")
    ELSE IF ~user_message
    THEN Response(400, "No message provided.")
    ELSE Response(500, "An internal error occurred.")

InitG == InitWith(Worker, {TRUE})

NextG ==
    \/ \E p \in Worker, model \in BOOLEAN : get_gemini_response(p, model)
    \/ \E p \in Worker, raises \in BOOLEAN, response \in Responses :
           send_message(p, raises, response)
    \/ \E p \in Worker : tool_loop(p)

SpecG == InitG /\ [][NextG]_vars

\* The loop is straight-line code between two sends: with a response in
\* hand its turn is taken. Nothing is assumed of the model, which may ask
\* for tools for ever, nor of a send, which may not come back.
SpecGF == SpecG /\ \A p \in Worker : WF_vars(tool_loop(p))

(***************************************************************************)
(* Uploads one after the other, between writes of the tools                *)
(***************************************************************************)
n_dot_a_txt == <<"", "a", "txt">>

UploadedFilesV ==
    { [filename |-> n_a_txt, data |-> <<"z">>, huge |-> FALSE],
      [filename |-> n_a_txt, data |-> <<>>, huge |-> FALSE],
      [filename |-> n_dot_a_txt, data |-> <<"h">>, huge |-> FALSE],
      [filename |-> n_a_pdf, data |-> PdfImageOnly, huge |-> FALSE],
      [filename |-> n_a_txt, data |-> <<"x">>, huge |-> TRUE],
      [filename |-> n_a_md, data |-> <<"x">>, huge |-> FALSE],
      [filename |-> <<"">>, data |-> <<>>, huge |-> FALSE] }

LocatorsV == { Loc(FALSE, <<n_a_txt>>), Loc(FALSE, <<n_a_txt, n_a_txt>>) }

ContentsV == { <<"x">> }

InitV == InitWith(Worker, {TRUE})

NextV ==
    \/ \E p \in Worker, authenticated \in BOOLEAN, hasPart \in BOOLEAN, file \in UploadedFilesV :
           upload_file(p, authenticated, hasPart, file)
    \/ \E p \in Worker, loc \in LocatorsV, content \in ContentsV : write_text_file(p, loc, content)
    \/ \E p \in Worker : write_open(p)
    \/ \E p \in Worker : write_data(p)
    \/ clean_between_tests

SpecV == InitV /\ [][NextV]_vars

(***************************************************************************)
(* LocalVectorSearchTool.run_vector_search                                 *)
(***************************************************************************)
\* A Python value handed in as k: its type and, for numbers, its value
\* (for a float the integer below it, for True and False 1 and 0).
PyValue(type, value) == [type |-> type, value |-> value]

\* Variant: k handed to the store unchecked.
KUnchecked(k) == FALSE

\* not isinstance(k, int) or k <= 0; bool is a subclass of int.
InvalidK(k) == k.type \notin {"int", "bool"} \/ k.value <= 0

ErrInvalidK == [type |-> "result", msg |-> "error", status |-> 0,
                data |-> <<"Invalid value for k: must be a positive integer, but got <k>.">>]

ErrVectorSearch == [type |-> "result", msg |-> "error", status |-> 0,
                    data |-> <<"An error occurred during vector search: <e>">>]

VectorSuccess(retrieved_contents) ==
    [type |-> "result", msg |-> "success", status |-> 0, data |-> retrieved_contents]

\* The documents of the store in the order it ranks them for the query,
\* the most similar first.
Ranking(query) ==
    IF query = "light"
    THEN << [page_content |-> "segment b"], [page_content |-> "segment a"],
            [page_content |-> "segment c"] >>
    ELSE << [page_content |-> "segment c"], [page_content |-> "segment b"] >>

Queries == {"light", "water"}

\* Most documents the store holds for a query.
MaxMatches == 3

Min(a, b) == IF a < b THEN a ELSE b

\* self.vstore.similarity_search(query, k=k) when matches documents match.
TopK(query, matches, k) ==
    SubSeq(Ranking(query), 1, Min(Min(matches, Len(Ranking(query))), k.value))

\* [d.page_content for d in docs]
PageContents(docs) == [i \in 1..Len(docs) |-> docs[i].page_content]

Ks ==
    { PyValue("int", -1), PyValue("int", 0), PyValue("int", 1), PyValue("int", 2),
      PyValue("int", 4), PyValue("bool", 1), PyValue("bool", 0), PyValue("float", 2),
      PyValue("str", 0), PyValue("NoneType", 0) }

\* The call keeps its query where the file tools keep their locator.
run_vector_search(p, query, k) ==
    /\ pc[p] = "idle"
    /\ call' = [call EXCEPT ![p] = [op |-> "run_vector_search", loc |-> Loc(FALSE, <<<<query>>>>),
                                    content |-> <<k>>]]
    /\ IF InvalidK(k)
       THEN /\ ret' = [ret EXCEPT ![p] = ErrInvalidK]
            /\ pc' = pc
       ELSE /\ ret' = [ret EXCEPT ![p] = NoReturn]
            /\ pc' = [pc EXCEPT ![p] = "similarity_search"]
    /\ UNCHANGED <<fs, scandirOrder, PYPDF2_INSTALLED, safe_path, fd, wrote>>

\* The query of the store comes back with documents, or raises into the
\* handler of run_vector_search.
similarity_search(p, raises, matches) ==
    /\ pc[p] = "similarity_search"
    /\ pc' = [pc EXCEPT ![p] = "idle"]
    /\ ret' = [ret EXCEPT ![p] =
                  IF raises THEN ErrVectorSearch
                  ELSE VectorSuccess(PageContents(
                           TopK(call[p].loc.segs[1][1], matches, call[p].content[1])))]
    /\ UNCHANGED <<fs, scandirOrder, PYPDF2_INSTALLED, call, safe_path, fd, wrote>>

InitS == InitWith(Worker, {TRUE})

NextS ==
    \/ \E p \in Worker, query \in Queries, k \in Ks : run_vector_search(p, query, k)
    \/ \E p \in Worker, raises \in BOOLEAN, matches \in 0..MaxMatches :
           similarity_search(p, raises, matches)

SpecS == InitS /\ [][NextS]_vars

(***************************************************************************)
(* The agent runners kept in Redis: /chat, /ask and /logout                *)
(***************************************************************************)
\* Here the store outside the process is the Redis database: fs maps a key
\* of the database to what is stored under it. The database outlives the
\* process, and what it holds at the start it holds from an earlier run.
redis_key(user) == <<"runner", user>>

\* A stored payload by what pickle.loads makes of it: a runner, the one
\* /chat would store now or an older one, None, or an exception, and the
\* seconds the key was given to live.
RedisValue(payload, ex) == [kind |-> payload, data |-> <<ex>>]

FreshRunner == "<fresh runner>"

StoredPayloads == {"<runner>", "<None>", "UnpicklingError", "EOFError"}

redis_get(f, key) == IF key \in DOMAIN f THEN f[key].kind ELSE "<nil>"

redis_set(f, key, payload, ex) ==
    [k \in DOMAIN f \cup {key} |-> IF k = key THEN RedisValue(payload, ex) ELSE f[k]]

\* Variant: a delete that removes nothing.
RedisKeepsKey(f, key) == f

redis_delete(f, key) == [k \in DOMAIN f \ {key} |-> f[k]]

\* The deleted_count the handlers log.
deleted_count(f, key) == IF key \in DOMAIN f THEN "deleted 1" ELSE "deleted 0"

\* What the request did, for the record of the call.
Request(op, note) == [op |-> op, loc |-> Loc(FALSE, <<>>), content |-> <<note>>]

\* initialize_gemini_model is a plain function: it returns the model, or
\* None, and no coroutine.
initialize_gemini_model(initialized) ==
    [awaitable |-> FALSE, runner |-> IF initialized THEN FreshRunner ELSE "<None>"]

\* GET /logout
logout(p, authenticated, deleteRaises) ==
    /\ pc[p] = "idle"
    /\ LET key == redis_key(current_user(p))
       IN  IF ~authenticated
           THEN /\ fs' = fs
                /\ call' = [call EXCEPT ![p] = Request("logout", "login required")]
           ELSE IF deleteRaises
           THEN /\ fs' = fs
                /\ call' = [call EXCEPT ![p] = Request("logout", "RedisError")]
           ELSE /\ fs' = redis_delete(fs, key)
                /\ call' = [call EXCEPT ![p] = Request("logout", deleted_count(fs, key))]
    /\ ret' = [ret EXCEPT ![p] = login_required(authenticated, Response(302, "/login"))]
    /\ UNCHANGED <<scandirOrder, PYPDF2_INSTALLED, pc, safe_path, fd, wrote>>

\* GET /chat: the handler awaits what initialize_gemini_model returned, and
\* nothing in it answers for the TypeError of awaiting what is no
\* awaitable. Past the await it stores the runner for four hours, or
\* deletes the key when there is none, logs what Redis or pickle raise, and
\* renders the page.
chat_page(p, authenticated, initialized, storeRaises) ==
    /\ pc[p] = "idle"
    /\ LET key == redis_key(current_user(p))
           r == initialize_gemini_model(initialized)
       IN  IF ~authenticated
           THEN /\ fs' = fs
                /\ call' = [call EXCEPT ![p] = Request("chat", "login required")]
                /\ ret' = [ret EXCEPT ![p] = Response(302, "/login")]
           ELSE IF ~r.awaitable
           THEN /\ fs' = fs
                /\ call' = [call EXCEPT ![p] = Request("chat", "TypeError")]
                /\ ret' = [ret EXCEPT ![p] = Response(500, "Internal Server Error")]
           ELSE /\ fs' = IF storeRaises THEN fs
                         ELSE IF r.runner = FreshRunner
                         THEN redis_set(fs, key, r.runner, 14400)
                         ELSE redis_delete(fs, key)
                /\ call' = [call EXCEPT ![p] =
                               Request("chat", IF storeRaises THEN "RedisError"
                                               ELSE IF r.runner = FreshRunner THEN "stored"
                                               ELSE deleted_count(fs, key))]
                /\ ret' = [ret EXCEPT ![p] = Response(200, "chat_interface.html")]
    /\ UNCHANGED <<scandirOrder, PYPDF2_INSTALLED, pc, safe_path, fd, wrote>>

\* The first half of /ask: the runner it has after asking Redis, and the
\* database it leaves. Only an UnpicklingError has the key deleted; what
\* else pickle.loads or Redis raise is logged.
RetrieveRunner(f, key, getRaises, deleteRaises) ==
    IF getRaises THEN [agent_runner |-> FALSE, fs |-> f]
    ELSE IF redis_get(f, key) \in {"<runner>", FreshRunner}
    THEN [agent_runner |-> TRUE, fs |-> f]
    ELSE IF redis_get(f, key) = "UnpicklingError" /\ ~deleteRaises
    THEN [agent_runner |-> FALSE, fs |-> redis_delete(f, key)]
    ELSE [agent_runner |-> FALSE, fs |-> f]

\* POST /ask: get_gemini_response is called when there is a runner and a
\* message.
ask_request(p, authenticated, getRaises, deleteRaises, user_message, ai_response) ==
    /\ pc[p] = "idle"
    /\ \E r \in {RetrieveRunner(fs, redis_key(current_user(p)), getRaises, deleteRaises)} :
           IF ~authenticated
           THEN /\ fs' = fs
                /\ call' = [call EXCEPT ![p] = Request("ask", "login required")]
                /\ ret' = [ret EXCEPT ![p] = Response(302, "/login")]
           ELSE /\ fs' = r.fs
                /\ call' = [call EXCEPT ![p] =
                               Request("ask", IF r.agent_runner /\ user_message
                                              THEN "get_gemini_response" ELSE "no call")]
                /\ ret' = [ret EXCEPT ![p] = ask(r.agent_runner, user_message, ai_response)]
    /\ UNCHANGED <<scandirOrder, PYPDF2_INSTALLED, pc, safe_path, fd, wrote>>

\* A key set with ex is gone when its time is up.
expire(user) ==
    /\ redis_key(user) \in DOMAIN fs
    /\ fs' = redis_delete(fs, redis_key(user))
    /\ UNCHANGED <<scandirOrder, PYPDF2_INSTALLED, pc, call, safe_path, fd, ret, wrote>>

Databases ==
    UNION { [ { redis_key(user) : user \in users } ->
                { RedisValue(payload, 14400) : payload \in StoredPayloads } ] :
            users \in SUBSET {"alice", "bob"} }

InitR ==
    /\ fs \in Databases
    /\ scandirOrder = "asc"
    /\ PYPDF2_INSTALLED = TRUE
    /\ pc = [p \in Workers |-> "idle"]
    /\ call = [p \in Workers |-> NoCall]
    /\ safe_path = [p \in Workers |-> <<>>]
    /\ fd = [p \in Workers |-> FALSE]
    /\ ret = [p \in Workers |-> NoReturn]
    /\ wrote = NoWrite

NextR ==
    \/ \E p \in Workers, authenticated, deleteRaises \in BOOLEAN :
           logout(p, authenticated, deleteRaises)
    \/ \E p \in Workers, authenticated, initialized, storeRaises \in BOOLEAN :
           chat_page(p, authenticated, initialized, storeRaises)
    \/ \E p \in Workers, authenticated, getRaises, deleteRaises, user_message \in BOOLEAN,
          ai_response \in {SorryUnexpected, Text(<<"reply">>)} :
           ask_request(p, authenticated, getRaises, deleteRaises, user_message, ai_response)
    \/ \E user \in {"alice", "bob"} : expire(user)

SpecR == InitR /\ [][NextR]_vars

(***************************************************************************)
(* Bare names: the tools called with a name without extension, over trees  *)
(* that hold that name and names with an extension, at two depths          *)
(***************************************************************************)
LocatorsB ==
    { Loc(FALSE, <<n_a>>),                              \* a
      Loc(FALSE, <<n_d>>),                              \* d
      Loc(FALSE, <<DOTDOT>>),                           \* ..
      Loc(FALSE, <<n_a_txt>>),                          \* a.txt
      Loc(FALSE, <<n_d, n_a>>),                         \* d/a
      Loc(FALSE, <<n_d, n_a_txt>>),                     \* d/a.txt
      Loc(FALSE, <<n_d, n_a_md>>) }                     \* d/a.md

ContentsB == { <<"x">> }

InitB == InitWith(Worker, {TRUE})

NextB ==
    \/ \E p \in Worker, loc \in LocatorsB : read_text_file(p, loc)
    \/ \E p \in Worker : read_is_file(p)
    \/ \E p \in Worker : read_contents(p)
    \/ \E p \in Worker, loc \in LocatorsB, content \in ContentsB : write_text_file(p, loc, content)
    \/ \E p \in Worker : write_open(p)
    \/ \E p \in Worker : write_data(p)
    \/ clean_between_tests

SpecB == InitB /\ [][NextB]_vars

(***************************************************************************)
(* Properties                                                              *)
(***************************************************************************)
Root == WorkspaceAbs

Procs == DOMAIN pc

IsToolCall(p) == call[p].op \in {"read", "write"}

Finished(p) == pc[p] = "idle"

\* The path the locator denotes, "." and ".." folded, whatever the tree holds.
Denoted(loc) == Normalize(IF loc.abs THEN <<>> ELSE Root, loc.segs)

DenotesOutside(loc) == ~IsPrefix(Root, Denoted(loc))

HasDotDot(loc) == \E i \in 1..Len(loc.segs) : loc.segs[i] = DOTDOT

LastName(path) == path[Len(path)]

IsPdfPath(path) == Lower(Suffix(LastName(path))) = "pdf"

\* C1: whatever the other worker, uploads and the fixture do in between,
\* a path the resolver hands to a caller is the workspace root or lies
\* below it, and a locator that denotes a place outside the root gets no
\* path at all.
C1_ResolvedInsideRoot ==
    \A p \in Procs : IsToolCall(p) =>
        /\ ((~Finished(p) \/ safe_path[p] # <<>>) => IsPrefix(Root, safe_path[p]))
        /\ (DenotesOutside(call[p].loc) => (Finished(p) /\ safe_path[p] = <<>>))

C1_Witness ==
    \E p, q \in Procs :
        /\ p # q
        /\ pc[p] = "write" /\ Len(safe_path[p]) = Len(Root) + 2
        /\ IsToolCall(q) /\ Finished(q) /\ DenotesOutside(call[q].loc) /\ safe_path[q] = <<>>

\* C2 as stated: every locator with a ".." segment, and every absolute
\* locator outside the root, is refused by read_text_file with the
\* path-traversal message.
C2_DotDotAlwaysRefused ==
    \A p \in Procs :
        (/\ call[p].op = "read"
         /\ HasDotDot(call[p].loc) \/ (call[p].loc.abs /\ DenotesOutside(call[p].loc)))
        => (Finished(p) /\ ret[p] = ErrInvalidPathRead)

\* C2 amended: a locator that denotes a place outside the root (an absolute
\* path outside it, or ".." segments that climb above it) is refused with
\* the path-traversal message by read and by write, whether or not
\* anything exists at that place.
C2_OutsideRefused ==
    \A p \in Procs :
        /\ (call[p].op = "read" /\ DenotesOutside(call[p].loc))
              => (Finished(p) /\ ret[p] = ErrInvalidPathRead)
        /\ (call[p].op = "write" /\ DenotesOutside(call[p].loc))
              => (Finished(p) /\ ret[p] = ErrInvalidPathWrite)

C2_Witness ==
    \E p \in Procs :
        /\ call[p].op = "read" /\ HasDotDot(call[p].loc) /\ ~call[p].loc.abs
        /\ IsFile(fs, Denoted(call[p].loc))
        /\ ret[p] = ErrInvalidPathRead

\* A read that finished after a successful write of the same locator, the
\* tree untouched in between.
ReadAfterWrite(p) ==
    Finished(p) /\ call[p].op = "read" /\ wrote.valid /\ wrote.loc = call[p].loc

WriteAccepted(p) == Finished(p) /\ call[p].op = "write" /\ safe_path[p] # <<>>

\* C3 as stated: a write to any accepted locator succeeds, and the read
\* that follows returns exactly the written content.
C3_RoundTripExact ==
    \A p \in Procs :
        /\ (WriteAccepted(p) => ret[p] = SuccessWritten)
        /\ (ReadAfterWrite(p) => ret[p] = Text(wrote.content))

\* C3 amended: a write of encodable text to an accepted locator whose
\* target is not a directory succeeds, leaving the target a file with that
\* content under directories created as needed; the read that follows,
\* when the target does not end in .pdf, returns the content with "\r\n"
\* and "\r" turned into "\n".
C3_RoundTripText ==
    \A p \in Procs :
        /\ (WriteAccepted(p) /\ ~IsDir(fs, safe_path[p]) /\ Utf8Encodable(call[p].content))
              => /\ ret[p] = SuccessWritten
                 /\ IsFile(fs, safe_path[p])
                 /\ fs[safe_path[p]].data = call[p].content
                 /\ \A q \in Prefixes(Parent(safe_path[p])) : IsDir(fs, q)
        /\ (ReadAfterWrite(p) /\ ~IsPdfPath(safe_path[p]))
              => /\ ret[p] = Text(UniversalNewlines(wrote.content))
                 /\ ("\r" \notin {wrote.content[i] : i \in 1..Len(wrote.content)}
                        => ret[p] = Text(wrote.content))

C3_Witness ==
    \E p \in Procs :
        /\ ReadAfterWrite(p)
        /\ Len(safe_path[p]) = Len(Root) + 2
        /\ ret[p] = Text(wrote.content)

\* The resolver has just answered a bare-name call and nothing has touched
\* the tree since.
JustResolvedBare(p) ==
    pc[p] \in {"is_file", "open"} /\ ~HasSeparator(call[p].loc)

Found(p) == rglob(fs, Root, call[p].loc.segs[1])

FilesNamed(name) == {q \in Entries(fs) : IsFile(fs, q) /\ LastName(q) = name}

\* C5 as stated: a bare name with an extension that exactly one regular
\* file under the root carries resolves to that file, and reading it
\* returns the file's content.
C5_UniqueFileFound ==
    \A p \in Procs :
        (/\ call[p].op = "read"
         /\ ~HasSeparator(call[p].loc)
         /\ HasExtension(call[p].loc.segs[1])
         /\ Cardinality(FilesNamed(call[p].loc.segs[1])) = 1)
        => /\ (pc[p] \in {"is_file", "read"} => safe_path[p] \in FilesNamed(call[p].loc.segs[1]))
           /\ (Finished(p) /\ ~IsPdfPath(<<call[p].loc.segs[1]>>))
                 => \E q \in FilesNamed(call[p].loc.segs[1]) : ret[p] = Text(fs[q].data)

FilesMatching(name) == {q \in Entries(fs) : IsFile(fs, q) /\ Matches(LastName(q), name)}

\* The written locator is a path whose last name is the bare name plus one
\* extension.
WroteWithOneExtension(name) ==
    /\ wrote.valid /\ HasSeparator(wrote.loc)
    /\ LET w == wrote.loc.segs[Len(wrote.loc.segs)]
       IN  Len(w) = Len(name) + 1 /\ SubSeq(w, 1, Len(name)) = name

\* C6 as stated: after a write to d/N.ext into a workspace with no other
\* file named N.*, reading the bare name N returns the written content.
C6_ExtensionAgnosticRead ==
    \A p \in Procs :
        (/\ Finished(p) /\ call[p].op = "read"
         /\ ~HasSeparator(call[p].loc)
         /\ ~HasExtension(call[p].loc.segs[1])
         /\ WroteWithOneExtension(call[p].loc.segs[1])
         /\ Cardinality(FilesMatching(call[p].loc.segs[1])) = 1)
        => ret[p] = Text(wrote.content)

\* The step in which worker p, idle before, takes a read or write call
\* and runs the resolver on its locator.
ResolverStep(p) == pc[p] = "idle" /\ call'[p].op \in {"read", "write"}

\* C8: a step of the resolver leaves every existing entry as it was; what
\* it adds are directories inside the root on the way to a target that did
\* not exist; a call it refuses leaves the tree unchanged.
C8_ResolverFrame ==
    [][\A p \in Procs : ResolverStep(p) =>
          /\ \A q \in DOMAIN fs : q \in DOMAIN fs' /\ fs'[q] = fs[q]
          /\ \A q \in DOMAIN fs' \ DOMAIN fs :
                /\ fs'[q] = DirNode
                /\ IsPrefix(Root, q)
                /\ IsPrefix(q, safe_path'[p]) /\ q # safe_path'[p]
                /\ ~Exists(fs, safe_path'[p])
          /\ (safe_path'[p] = <<>> => fs' = fs)]_vars

C8_Witness ==
    \E p \in Procs :
        /\ pc[p] \in {"is_file", "open"}
        /\ Len(safe_path[p]) = Len(Root) + 2
        /\ IsDir(fs, Parent(safe_path[p]))
        /\ ~Exists(fs, safe_path[p])

\* C9: a read whose locator resolved inside the root to something that is
\* not a regular file returns the not-found error.
C9_NotRegularIsNotFound ==
    \A p \in Procs :
        (Finished(p) /\ call[p].op = "read" /\ safe_path[p] # <<>> /\ ~IsFile(fs, safe_path[p]))
            => ret[p] = ErrNotRegularFile

C9_Witness ==
    \E p \in Procs :
        /\ Finished(p) /\ call[p].op = "read"
        /\ IsDir(fs, safe_path[p]) /\ safe_path[p] # Root
        /\ ret[p] = ErrNotRegularFile

\* C10: no exception leaves read_text_file or write_text_file; a finished
\* call has returned content, a success message, or a message that begins
\* with Error or Warning.
C10_NeverRaises ==
    \A p \in Procs : IsToolCall(p) =>
        /\ ret[p].type # "raise"
        /\ (Finished(p) => ret[p].type \in {"content", "Success", "Error", "Warning"})

C10_Witness ==
    \E p, q \in Procs :
        /\ Finished(p) /\ call[p].op = "read" /\ ret[p] = ErrFileNotFound
        /\ Finished(q) /\ call[q].op = "write" /\ ret[q] = ErrCouldNotWrite

\* What a tool returns for a locator refused as path traversal.
PathTraversalOutcome(op) == IF op = "read" THEN ErrInvalidPathRead ELSE ErrInvalidPathWrite

RootMissing == ~Exists(fs, Root)

\* C11 as stated: a call that fails because the root cannot be resolved
\* returns something other than what a path-traversal refusal returns.
C11_FailuresDistinguishable ==
    \A p \in Procs :
        (IsToolCall(p) /\ Finished(p) /\ RootMissing)
            => ret[p] # PathTraversalOutcome(call[p].op)

\* C11 amended: the resolver has one failure outcome.  With the root
\* missing, and for a locator that denotes a place outside the root, it
\* returns no path, and read_text_file and write_text_file return the same
\* "Invalid or disallowed file path" message in both cases.
C11_FailuresAlike ==
    \A p \in Procs :
        (IsToolCall(p) /\ Finished(p) /\ (RootMissing \/ DenotesOutside(call[p].loc)))
            => /\ safe_path[p] = <<>>
               /\ ret[p] = PathTraversalOutcome(call[p].op)

C11_Witness ==
    \E p \in Procs :
        /\ IsToolCall(p) /\ Finished(p) /\ RootMissing
        /\ ~DenotesOutside(call[p].loc)
        /\ ret[p] = PathTraversalOutcome(call[p].op)

\* The last call of p was list_files_in_workspace and the tree is as it
\* was when it ran.
Listed(p) == Finished(p) /\ call[p].op = "list"

RootAccessible == IsDir(fs, Root) /\ Readable(fs, Root)

ImmediateNames == {q[Len(q)] : q \in {e \in Entries(fs) : Len(e) = Len(Root) + 1}}

ListedNames(p) == {ret[p].data[i] : i \in 1..Len(ret[p].data)}

\* C12 as stated: the listing names exactly the immediate entries of the
\* root, and for a root that is missing, not a directory or unreadable the
\* result differs from the result for an empty root.
C12_InaccessibleDistinguished ==
    \A p \in Procs : Listed(p) =>
        /\ (RootAccessible => ListedNames(p) = ImmediateNames)
        /\ (~RootAccessible => ret[p] # ListResult(<<>>))

\* C12 amended: for a root that is a readable directory the listing names
\* each immediate entry once and nothing deeper, and is empty when the root
\* is empty; for a root that is missing, not a directory or unreadable the
\* result is the empty list as well.
C12_ListsImmediateEntries ==
    \A p \in Procs : Listed(p) =>
        /\ ret[p].type = "list"
        /\ (RootAccessible =>
               /\ ListedNames(p) = ImmediateNames
               /\ Len(ret[p].data) = Cardinality(ImmediateNames))
        /\ (~RootAccessible => ret[p] = ListResult(<<>>))

C12_Witness ==
    \E p \in Procs :
        /\ Listed(p) /\ RootAccessible
        /\ \E e \in Entries(fs) : Len(e) = Len(Root) + 2
        /\ Len(ret[p].data) = 1

WroteOK(p) == Finished(p) /\ call[p].op = "write" /\ ret[p] = SuccessWritten

\* C13: when the last calls of two workers are successful writes to the
\* same locator, the file holds the content of one of the two, whole.
C13_LastWriterWins ==
    \A p, q \in Procs :
        (p # q /\ WroteOK(p) /\ WroteOK(q) /\ call[p].loc = call[q].loc)
            => /\ IsFile(fs, safe_path[p])
               /\ fs[safe_path[p]].data \in {call[p].content, call[q].content}

\* C14: a successful write_text_file with a bare file name leaves the
\* content in a file of that name directly in the workspace root.
C14_BareNameWritesToRoot ==
    \A p \in Procs :
        (WroteOK(p) /\ ~HasSeparator(call[p].loc) /\ wrote.valid /\ wrote.loc = call[p].loc)
            => /\ safe_path[p] = Root \o call[p].loc.segs
               /\ IsFile(fs, Root \o call[p].loc.segs)
               /\ fs[Root \o call[p].loc.segs].data = call[p].content

BobsSession(p) == current_user(p) = "bob"

\* C15 as stated: the workspace is per user. In a run where only alice
\* uploads and writes, what bob reads and lists is what a workspace
\* without files shows him: a read finds no file (or no root to search),
\* and the listing is empty.
C15_WorkspacePerUser ==
    \A p \in Procs :
        Finished(p) /\ BobsSession(p) =>
            /\ call[p].op = "read" => ret[p] \in {ErrNotRegularFile, ErrInvalidPathRead}
            /\ call[p].op = "list" => ret[p] = ListResult(<<>>)

\* A request of the worker was served in this step.
Served(p, op) ==
    /\ call'[p].op = op
    /\ <<call'[p], ret'[p]>> # <<call[p], ret[p]>>

\* The status the handlers are said to give to what the core reports.
StatusFor(core) ==
    IF core \in {ErrNotRegularFile, ErrFileNotFound} THEN 404
    ELSE IF core = ErrInvalidPathRead THEN 400
    ELSE IF core.type \in {"Error", "raise"} THEN 500
    ELSE 200

\* C16 as stated: a logged-in GET /view_file/<filename> is answered with
\* the status that belongs to what read_text_file reports for that
\* filename (404 not found, 400 invalid path, 500 unexpected failure, 200
\* with the content otherwise), and a logged-in GET /list_files with the
\* listing, which reports no failure.
C16_HandlersMapCoreResults ==
    [][\A p \in Procs :
          /\ Served(p, "view_file") /\ ret'[p].status # 302 =>
                 ret'[p].status =
                     StatusFor(ReadTextFile(fs, scandirOrder, PYPDF2_INSTALLED, call'[p].loc).ret)
          /\ Served(p, "list_files") /\ ret'[p].status # 302 => ret'[p].status = 200]_vars

ClaimedTools == {"read_text_file", "write_text_file", "list_files_in_workspace"}

\* C17 as stated: read, write and list are all callable tools. When the
\* model's function call names one of the three, the function response
\* sent back to it is the result of that tool, never the unknown-tool error.
C17_AllThreeToolsDispatched ==
    \A p \in Procs :
        pc[p] = "send_message" /\ call[p].op \in ClaimedTools =>
            ret[p] # FunctionResponse(call[p].op, "error", UnknownTool)

ErrorInCall(p) == Finished(p) /\ call[p].op \in {"<no model>", "<exception>"}

\* C18 as stated: when an error occurs in get_gemini_response, a missing
\* model or an exception inside the call, the function returns None, the
\* value /ask tests for before it answers 500.
C18_NoneOnError ==
    \A p \in Procs :
        ErrorInCall(p) => ret[p] = NoResponse /\ ask(TRUE, TRUE, ret[p]).status = 500

\* A finished read of a PDF file that is still as the read found it.
PdfRead(p) ==
    /\ Finished(p) /\ call[p].op = "read"
    /\ safe_path[p] # <<>> /\ IsPdfPath(safe_path[p]) /\ IsFile(fs, safe_path[p])

PdfData(p) == fs[safe_path[p]].data

NeedsCredential(data) == Locked(data)

ReadablePdf(data) == PdfReaderRaises(data) = NoException /\ PagesRaises(data) = NoException

PageTexts(data) == text_parts(PdfPages(data))

ThreePdfOutcomes(p) ==
    /\ ReadablePdf(PdfData(p)) /\ PageTexts(PdfData(p)) # <<>> =>
           ret[p] = Text(JoinLines(PageTexts(PdfData(p))))
    /\ ReadablePdf(PdfData(p)) /\ PageTexts(PdfData(p)) = <<>> => ret[p].type = "Warning"
    /\ NeedsCredential(PdfData(p)) =>
           ret[p] = ErrPdfPassword /\ ret[p].type = "Error" /\ ret[p] # ErrPdfCorrupted

\* C19 as stated: a read of a PDF returns the page texts joined by
\* newlines when a page yields text, a Warning when the file is readable
\* but yields none, and the password error, which is not the corrupted-file
\* error, when the file needs a credential.
C19_ThreePdfOutcomes == \A p \in Procs : PdfRead(p) => ThreePdfOutcomes(p)

\* C19 amended: the three outcomes are told apart when the PDF library
\* was imported; without it every read of a PDF returns the error that no
\* PDF library is installed.
C19_ThreePdfOutcomesWithLibrary ==
    \A p \in Procs :
        PdfRead(p) => IF PYPDF2_INSTALLED THEN ThreePdfOutcomes(p) ELSE ret[p] = ErrNoPdfLibrary

C19_Witness ==
    \E p \in Procs :
        /\ PdfRead(p) /\ PYPDF2_INSTALLED
        /\ NeedsCredential(PdfData(p)) /\ ret[p] = ErrPdfPassword

\* Why an upload is rejected, "" when it is not.
Rejection(hasPart, file) ==
    IF ~hasPart THEN "No file part in the request."
    ELSE IF file.filename = <<"">> THEN "No selected file."
    ELSE IF Lower(Ext(file.filename)) \notin {"txt", "pdf"}
    THEN "File type not allowed. Only .txt and .pdf files are accepted."
    ELSE IF FileSize(file) > MAX_FILE_SIZE THEN "File exceeds maximum size of 1GB."
    ELSE ""

\* C20: a logged-in POST /upload_file that has no file part, an empty
\* filename, an extension other than .txt and .pdf, or more than
\* MAX_FILE_SIZE bytes is answered 400 with the error of that cause, and
\* the step leaves the whole tree, the workspace in it, as it was.
C20_RejectedUploadChangesNothing ==
    [][\A p \in Procs, hasPart \in BOOLEAN, file \in UploadedFilesU :
          upload_file(p, TRUE, hasPart, file) /\ Rejection(hasPart, file) # "" =>
              ret'[p] = Response(400, Rejection(hasPart, file)) /\ fs' = fs]_vars

\* A rejected upload of a.txt, over the limit, answered 400 while the
\* a.txt in the workspace still holds other content.
C20_Witness ==
    \E p \in Procs :
        /\ Finished(p) /\ call[p].op = "upload" /\ call[p].loc = Loc(FALSE, <<n_a_txt>>)
        /\ ret[p] = Response(400, "File exceeds maximum size of 1GB.")
        /\ IsFile(fs, Root \o <<n_a_txt>>)
        /\ fs[Root \o <<n_a_txt>>].data # call[p].content

\* An upload the handler has no cause to reject.
Acceptable(file) ==
    /\ file.filename # <<"">>
    /\ Lower(Ext(file.filename)) \in {"txt", "pdf"}
    /\ FileSize(file) <= MAX_FILE_SIZE

StoredAs(f, name, data) == IsFile(f, Root \o <<name>>) /\ f[Root \o <<name>>].data = data

\* C21 as stated: a logged-in upload with a filename, an extension .txt
\* or .pdf and a size within the limit is answered 200 with a message
\* naming the uploaded filename, and the file of that name in the root
\* then holds the uploaded bytes.
C21_UploadStoresUnderItsName ==
    [][\A p \in Procs, file \in UploadedFilesV :
          upload_file(p, TRUE, TRUE, file) /\ Acceptable(file) =>
              /\ ret'[p] = UploadedSuccessfully(file.filename)
              /\ StoredAs(fs', file.filename, file.data)]_vars

\* C21 amended: the name is the sanitised filename, in the message and in
\* the root, and an upload whose sanitised name is a directory of the
\* root is answered 500 and changes nothing.
C21_UploadStoresUnderSafeName ==
    [][\A p \in Procs, file \in UploadedFilesV :
          upload_file(p, TRUE, TRUE, file) /\ Acceptable(file) =>
              IF IsDir(fs, Root \o <<StripDots(file.filename)>>)
              THEN ret'[p].status = 500 /\ fs' = fs
              ELSE /\ ret'[p] = UploadedSuccessfully(StripDots(file.filename))
                   /\ StoredAs(fs', StripDots(file.filename), file.data)]_vars

\* An upload of an empty a.txt answered 200 and stored in the root.
C21_Witness ==
    \E p \in Procs :
        /\ Finished(p) /\ call[p].op = "upload" /\ ret[p] = UploadedSuccessfully(n_a_txt)
        /\ call[p].content = <<>>
        /\ StoredAs(fs, n_a_txt, <<>>)

\* C22: a POST /upload_file without a login is answered with a 302
\* redirect to the login page and the step leaves the tree as it was,
\* whatever the request carries.
C22_UnauthenticatedUploadRedirected ==
    [][\A p \in Procs, hasPart \in BOOLEAN, file \in UploadedFilesV :
          upload_file(p, FALSE, hasPart, file) =>
              ret'[p] = Response(302, "/login") /\ fs' = fs]_vars

\* An upload of a.pdf redirected to the login page, and no a.pdf stored.
C22_Witness ==
    \E p \in Procs :
        /\ Finished(p) /\ call[p].op = "upload" /\ call[p].loc = Loc(FALSE, <<n_a_pdf>>)
        /\ ret[p] = Response(302, "/login")
        /\ ~Exists(fs, Root \o <<n_a_pdf>>)

SearchCall(p) == call[p].op = "run_vector_search"

KOf(p) == call[p].content[1]

QueryOf(p) == call[p].loc.segs[1][1]

PositiveInteger(k) == k.type \in {"int", "bool"} /\ k.value > 0

\* C23: run_vector_search hands back a result object and never raises.
\* For a k that is no positive integer the result is the invalid-k error
\* and the store is not queried; otherwise the result is an error object,
\* or a success object whose documents are the first page contents of the
\* store's ranking for the query, at most k of them, possibly none.
C23_VectorSearchAlwaysAnswers ==
    \A p \in Procs :
        SearchCall(p) =>
            /\ ret[p].type # "raise"
            /\ ~PositiveInteger(KOf(p)) => Finished(p) /\ ret[p] = ErrInvalidK
            /\ PositiveInteger(KOf(p)) /\ Finished(p) =>
                   \/ ret[p] = ErrVectorSearch
                   \/ /\ ret[p].type = "result" /\ ret[p].msg = "success"
                      /\ Len(ret[p].data) <= KOf(p).value
                      /\ ret[p].data =
                             PageContents(SubSeq(Ranking(QueryOf(p)), 1, Len(ret[p].data)))

\* A search with k = 2 answered with the two best segments, in order.
C23_Witness ==
    \E p \in Procs :
        /\ SearchCall(p) /\ Finished(p) /\ KOf(p) = PyValue("int", 2) /\ QueryOf(p) = "light"
        /\ ret[p] = VectorSuccess(<<"segment b", "segment a">>)

HasFunctionCall(response) == \E i \in 1..Len(response) : response[i] \notin LastResponses

FirstCall(response) ==
    response[CHOOSE i \in 1..Len(response) :
                 /\ response[i] \notin LastResponses
                 /\ \A j \in 1..(i - 1) : response[j] \in LastResponses]

\* The loop is about to act on a function call of the model.
ToolRequested(p) == pc[p] = "response" /\ call[p] \notin LastResponses

FinalTexts == {FinalText(response) : response \in LastResponses}

\* The call returns a final text in this step.
ReturnsFinalText(p) == pc[p] # "idle" /\ pc'[p] = "idle" /\ ret'[p] \in FinalTexts

\* Of a response with function calls the loop takes the first.
FirstCallTaken(p) ==
    \A response \in Responses :
        send_message(p, FALSE, response) /\ HasFunctionCall(response) =>
            call'[p] = FirstCall(response)

\* A final text comes only from a response without a function call, and
\* no tool runs in that step.
FinalTextOnlyFromLastResponse(p) ==
    ReturnsFinalText(p) => pc[p] = "response" /\ call[p] \in LastResponses /\ fs' = fs

\* C24 as stated: for every response with a function call the tool named
\* by its first function call is invoked, once, and one function response
\* with that name and the tool's result is sent back before the next
\* response is looked at; a final text is returned only from a response
\* without a function call.
C24_OneToolRunPerFunctionCall ==
    [][\A p \in Procs :
          /\ FirstCallTaken(p)
          /\ ToolRequested(p) =>
                 /\ pc'[p] = "send_message" /\ call'[p] = call[p]
                 /\ ret'[p].type = "function_response" /\ ret'[p].msg = call[p].op
                 /\ ret'[p].data[1] = "content"
          /\ FinalTextOnlyFromLastResponse(p)]_vars

\* C24 amended: the tool is invoked, once, when it is registered; for a
\* name that is not registered no tool runs and the one function response
\* sent back carries the unknown-tool error.
C24_OneFunctionResponsePerFunctionCall ==
    [][\A p \in Procs :
          /\ FirstCallTaken(p)
          /\ ToolRequested(p) =>
                 /\ pc'[p] = "send_message" /\ call'[p] = call[p]
                 /\ IF call[p].op \in {"read_text_file", "write_text_file"}
                    THEN /\ ret'[p] = FunctionResponse(call[p].op, "content",
                                          ToolResult(fs, scandirOrder, PYPDF2_INSTALLED, call[p]).ret)
                         /\ fs' = ToolResult(fs, scandirOrder, PYPDF2_INSTALLED, call[p]).fs
                    ELSE /\ ret'[p] = FunctionResponse(call[p].op, "error", UnknownTool)
                         /\ fs' = fs
          /\ FinalTextOnlyFromLastResponse(p)]_vars

\* The write tool has run for the model's call and its result is on the
\* way back under the tool's name.
C24_Witness ==
    \E p \in Procs :
        /\ pc[p] = "send_message" /\ call[p] = WriteCall
        /\ ret[p] = FunctionResponse("write_text_file", "content", SuccessWritten)
        /\ StoredAs(fs, n_a_txt, <<"x">>)

\* The model's call names no registered tool.
UnregisteredTool(p) == ToolRequested(p) /\ call[p].op \notin AVAILABLE_TOOLS_PYTHON_FUNCTIONS

\* The model's call names a registered tool and leaves out its arguments,
\* or hands the write tool a number as content: calling the tool raises.
ToolRaises(p) ==
    /\ ToolRequested(p) /\ call[p].op \in AVAILABLE_TOOLS_PYTHON_FUNCTIONS
    /\ \/ call[p].loc = NoArguments
       \/ call[p].op = "write_text_file" /\ call[p].content = NumberContent

\* C25: a function call that names an unregistered tool runs no tool,
\* leaves the workspace as it is and is answered with the unknown-tool
\* error; a registered tool that raises on its arguments leaves the
\* workspace as it is and its exception goes back as an "Error" result; in
\* both cases the call does not return and the next step is the send that
\* brings the model's next response.
C25_BadToolRequestAnswered ==
    [][\A p \in Procs :
          /\ UnregisteredTool(p) =>
                 /\ fs' = fs
                 /\ ret'[p] = FunctionResponse(call[p].op, "error", UnknownTool)
                 /\ pc'[p] = "send_message"
          /\ ToolRaises(p) =>
                 /\ fs' = fs
                 /\ ret'[p].type = "function_response" /\ ret'[p].msg = call[p].op
                 /\ ret'[p].data[1] = "content" /\ ret'[p].data[2].type = "Error"
                 /\ pc'[p] = "send_message"]_vars

\* The write tool was handed a number as content, and the error string for
\* its exception is on the way back to the model over an existing file that
\* is as it was.
C25_Witness ==
    \E p \in Procs :
        /\ pc[p] = "send_message" /\ call[p].op = "write_text_file"
        /\ call[p].content = NumberContent
        /\ ret[p] = FunctionResponse("write_text_file", "content", ErrToolArguments)
        /\ StoredAs(fs, n_a_txt, <<"x">>)

NotInitialized ==
    Response(400, "Agent not initialized for this session. Please visit the chat page first.")

AiResponses == {SorryUnexpected, Text(<<"reply">>)}

UserKey(p) == redis_key(current_user(p))

\* pickle.loads makes a runner of what is stored under the key.
Deserializable(f, key) == redis_get(f, key) \in {"<runner>", FreshRunner}

\* Something is stored under the key and pickle.loads raises on it.
FailsToUnpickle(f, key) == redis_get(f, key) \in {"UnpicklingError", "EOFError"}

\* C26 as stated: when Redis fails or holds nothing under the user's key
\* that unpickles to a runner, /ask answers 400 "Agent not initialized"
\* whatever the message and calls no model; and a payload that fails to
\* unpickle is deleted, Redis permitting.
C26_NoRunnerNoModel ==
    [][\A p \in Procs : \A getRaises, deleteRaises, user_message \in BOOLEAN :
          \A ai_response \in AiResponses :
              ask_request(p, TRUE, getRaises, deleteRaises, user_message, ai_response) =>
                  /\ (getRaises \/ ~Deserializable(fs, UserKey(p))) =>
                         /\ ret'[p] = NotInitialized
                         /\ call'[p] = Request("ask", "no call")
                  /\ (~getRaises /\ ~deleteRaises /\ FailsToUnpickle(fs, UserKey(p))) =>
                         UserKey(p) \notin DOMAIN fs']_vars

\* C27 as stated: a logout of a logged-in user leaves nothing under the
\* user's key and answers with the redirect to the login page; /ask with
\* nothing under the key answers 400 "Agent not initialized"; and only a
\* /chat of the user brings the key back.
C27_LogoutRemovesRunner ==
    [][/\ \A p \in Procs : \A deleteRaises \in BOOLEAN :
              logout(p, TRUE, deleteRaises) =>
                  /\ UserKey(p) \notin DOMAIN fs'
                  /\ ret'[p] = Response(302, "/login")
       /\ \A p \in Procs : \A getRaises, deleteRaises, user_message \in BOOLEAN :
              \A ai_response \in AiResponses :
                  /\ ask_request(p, TRUE, getRaises, deleteRaises, user_message, ai_response)
                  /\ UserKey(p) \notin DOMAIN fs
                  => ret'[p] = NotInitialized
       /\ \A p \in Procs :
              UserKey(p) \notin DOMAIN fs /\ UserKey(p) \in DOMAIN fs' => Served(p, "chat")]_vars

\* C27 amended: the key is gone after a logout whose delete Redis did not
\* fail; the redirect is the answer either way.
C27_LogoutRemovesRunnerUnlessRedisFails ==
    [][/\ \A p \in Procs : \A deleteRaises \in BOOLEAN :
              logout(p, TRUE, deleteRaises) =>
                  /\ ~deleteRaises => UserKey(p) \notin DOMAIN fs'
                  /\ ret'[p] = Response(302, "/login")
       /\ \A p \in Procs : \A getRaises, deleteRaises, user_message \in BOOLEAN :
              \A ai_response \in AiResponses :
                  /\ ask_request(p, TRUE, getRaises, deleteRaises, user_message, ai_response)
                  /\ UserKey(p) \notin DOMAIN fs
                  => ret'[p] = NotInitialized
       /\ \A p \in Procs :
              UserKey(p) \notin DOMAIN fs /\ UserKey(p) \in DOMAIN fs' => Served(p, "chat")]_vars

\* A logout has removed the runner stored for its user, who is answered
\* with the redirect, while the other user's runner stays.
C27_Witness ==
    \E p, q \in Procs :
        /\ p # q
        /\ call[p] = Request("logout", "deleted 1") /\ ret[p] = Response(302, "/login")
        /\ UserKey(p) \notin DOMAIN fs
        /\ Deserializable(fs, UserKey(q))

\* C28 as stated: after a /chat of a logged-in user that met no Redis
\* error, the user's key holds the fresh runner with its four hours exactly
\* when initialization returned one, and holds nothing when it returned
\* none; no other key has changed and the answer is the chat page.
C28_ChatStoresRunner ==
    [][\A p \in Procs : \A initialized \in BOOLEAN :
          chat_page(p, TRUE, initialized, FALSE) =>
              /\ initialized <=> /\ UserKey(p) \in DOMAIN fs'
                                 /\ fs'[UserKey(p)] = RedisValue(FreshRunner, 14400)
              /\ ~initialized => UserKey(p) \notin DOMAIN fs'
              /\ \A key \in (DOMAIN fs \cup DOMAIN fs') \ {UserKey(p)} :
                     key \in DOMAIN fs /\ key \in DOMAIN fs' /\ fs'[key] = fs[key]
              /\ ret'[p] = Response(200, "chat_interface.html")]_vars

\* A locator that is one name, without extension, and neither "." nor "..".
BareName(loc) ==
    /\ ~HasSeparator(loc) /\ ~HasExtension(loc.segs[1])
    /\ loc.segs[1] \notin {DOT, DOTDOT}

\* The entries under the root, at any depth, whose name is N followed by a
\* dot and an extension.
WithExtension(f, N) ==
    {q \in Below(f, Root) : Len(LastName(q)) > Len(N) /\ SubSeq(LastName(q), 1, Len(N)) = N}

\* The entries named exactly N in a subdirectory.
DeeperExact(f, N) == {q \in Below(f, Root) : LastName(q) = N /\ Len(q) > Len(Root) + 1}

\* A tool takes up a call with this locator in this step.
Resolves(p, loc) ==
    \/ read_text_file(p, loc)
    \/ \E content \in ContentsB : write_text_file(p, loc, content)

ReturnedString(p) ==
    /\ pc[p] = "idle"
    /\ ret[p] \in FinalTexts \cup {SorryUnexpected}
    /\ ret[p] # NoResponse

\* A response without a function call has come back from the model.
LastResponseInHand(p) == pc[p] = "response" /\ call[p] \in LastResponses

\* The model is free to answer a send with one more function call.
MayCallAgain(p) ==
    ENABLED (\E fc \in FunctionCalls : send_message(p, FALSE, <<fc>>))

====
